---------------------------- MODULE Spec2Model ----------------------------
(***************************************************************************)
(* A model of the stupid_ec number-theoretic kernel: extended GCD,         *)
(* Miller-Rabin, the prime field PrimeField4999, dense polynomials over it *)
(* and general Weierstrass curves.  The library is a set of pure           *)
(* functions; each is an operator computed the way the code computes it,   *)
(* and each public entry point is an action that draws its arguments from  *)
(* a bounded set and records the call and its outcome.                     *)
(***************************************************************************)
EXTENDS Integers, Sequences, FiniteSets, TLC

\* op and args: the entry point called and its arguments; pc: "ready" before
\* the call and "done" after it; ret: the outcome of the call once done;
\* rng: the injected random source, the stream of raw values it will yield
\* and the number of values drawn from it so far.
VARIABLES pc, op, args, ret, rng

vars == <<pc, op, args, ret, rng>>

(***************************************************************************)
(* Bounds of the model.                                                    *)
(***************************************************************************)
\* egcd is called with both arguments in 0..MaxGcdArg
MaxGcdArg == 100

\* polynomials have at most MaxPolyLen coefficients, each among the field
\* elements 0..MaxCoeff and their negations
MaxPolyLen == 3

MaxCoeff == 2

\* a degree list names degrees in 0..MaxListDegree
MaxListDegree == 2

\* deterministic_miller_rabin and miller_rabin_step are called with n in
\* 0..MaxDetN
MaxDetN == 300

\* miller_rabin_with_randomness is called with n in 0..MaxMrN and rounds in
\* 0..MaxMrN; the random source repeats a stream of 1..MaxRngLen raw values
MaxMrN == 11

MaxRngLen == 2

\* curves handed to j_invariant have coefficients in 0..MaxCurveCoeff
MaxCurveCoeff == 2

\* the exponentiations are called with exponents of magnitude up to
\* MaxExponent, BigUint bases in 0..MaxDaaBase and field bases in
\* 0..MaxDaaFieldBase and their negations
MaxExponent == 16

MaxDaaBase == 2

MaxDaaFieldBase == 20

\* elements are built by new from raw values within MaxCanonOperand of 0,
\* of the modulus and of twice the modulus, and so are the right operands;
\* the raw random values are in 0..MaxCanonOperand and random is drawn at
\* most MaxCanonDraws times
MaxCanonOperand == 2

MaxCanonDraws == 1

\* trial_factorization is called with n in 0..MaxTrialN
MaxTrialN == 100

\* pollard_rho_single_factor is called with n in 0..MaxRhoN and every pair
\* of raw random values below MaxRhoN, so that every start s and shift b
\* occurs
MaxRhoN == 24

\* pollard_rho_factorisation is called with n in 0..MaxFactN, trial_bound in
\* 0..MaxTrialBound, rho_rounds in 0..MaxRhoRounds, miller_rabin_rounds in
\* 0..MaxFactMrRounds and raw random values in 0..MaxFactRaw
MaxFactN == 30

MaxTrialBound == 6

MaxRhoRounds == 2

MaxFactMrRounds == 2

MaxFactRaw == 3

\* rewrite_n is called with n in 0..MaxRewriteN; its loop is followed for at
\* most MaxRewriteSteps iterations (2^MaxRewriteSteps > MaxRewriteN, so the
\* loop of every n >= 2 ends before that)
MaxRewriteN == 600

MaxRewriteSteps == 12
\* integer_embed is called on integers within MaxEmbed of 0, of the modulus
\* and of its negation.
MaxEmbed == 30
\* The polynomial operations other than the three of SpecPoly run on
\* vectors of at most MaxOpsLen coefficients within MaxOpsCoeff of 0, shifts
\* by at most MaxShift and evaluation points within MaxEvalPoint of 0.
MaxOpsLen == 3
MaxOpsCoeff == 1
MaxShift == 2
MaxEvalPoint == 3
\* Point coordinates are within MaxPointCoord of 0.
MaxPointCoord == 2

(***************************************************************************)
(* Outcomes.  A Rust panic (failed contract, assertion, unwrap of None,    *)
(* index out of range, arithmetic overflow) is the outcome Panic.          *)
(***************************************************************************)
Panic == [tag |-> "Panic"]

None == [tag |-> "None"]

Some(v) == [tag |-> "Some", val |-> v]

\* A computation that can panic yields Panic or Ok(v).
Ok(v) == [tag |-> "Ok", val |-> v]

Min(x, y) == IF x <= y THEN x ELSE y

Max(x, y) == IF x <= y THEN y ELSE x

(***************************************************************************)
(* gcd.rs                                                                  *)
(***************************************************************************)
GCDResult(d, a_coeff, n_coeff, negative) ==
    [tag |-> "GCDResult", d |-> d, a_coeff |-> a_coeff, n_coeff |-> n_coeff,
     negative |-> negative]

\* The loop of egcd_typical: Euclid's algorithm, collecting quotients qs and
\* remainders rs until the next remainder is zero.
RECURSIVE euclid_loop(_, _)
euclid_loop(qs, rs) ==
    LET curr_len == Len(rs)
        r_i      == rs[curr_len]
        r_i_1    == rs[curr_len - 1]
        q_i      == r_i_1 \div r_i
        r_i_p_1  == r_i_1 % r_i
    IN  IF r_i_p_1 = 0
        THEN [qs |-> qs, rs |-> rs]
        ELSE euclid_loop(Append(qs, q_i), Append(rs, r_i_p_1))

\* The back-substitution loop of egcd_typical, for i in 1..=(ell - 2).
\* Sequences are 1-based here, 0-based in the source.
RECURSIVE back_substitute(_, _, _, _, _)
back_substitute(i, cs, ds, qs, ell) ==
    IF i > ell - 2
    THEN [cs |-> cs, ds |-> ds]
    ELSE back_substitute(i + 1,
                         Append(cs, ds[i]),
                         Append(ds, cs[i] + ds[i] * qs[(ell - 2 - i) + 1]),
                         qs, ell)

\* The opposite sign convention (a mutation of egcd_negative).
egcd_negative_flipped(ell) == ell % 2 = 1

\* negative: ell % 2 == 0
egcd_negative(ell) == ell % 2 = 0

\* The three #[requires] contracts of egcd_typical panic when violated.
egcd_typical(a, n) ==
    IF a = 0 \/ ~(a < n) \/ n % a = 0
    THEN Panic
    ELSE LET e   == euclid_loop(<< >>, <<n, a>>)
             qs  == e.qs
             rs  == e.rs
             ell == Len(rs) - 1
             d   == rs[ell + 1]
             b   == back_substitute(1, <<1>>, <<qs[(ell - 2) + 1]>>, qs, ell)
         IN  GCDResult(d, b.ds[Len(b.ds)], b.cs[Len(b.cs)], egcd_negative(ell))

egcd_impl(a, n) ==
    IF ~(a <= n) THEN Panic
    ELSE IF a = 0 THEN GCDResult(n, 0, 1, TRUE)
    ELSE IF n % a = 0 THEN GCDResult(a, 1, 0, FALSE)
    ELSE egcd_typical(a, n)

egcd(a, b) == IF a <= b THEN egcd_impl(a, b) ELSE egcd_impl(b, a)

(***************************************************************************)
(* primes.rs                                                               *)
(***************************************************************************)
\* The random source: raw is the stream of raw values, repeated for ever;
\* pos counts the values drawn.  gen_biguint_range(lo, hi) maps the next raw
\* value into [lo, hi).
gen_biguint_range(r, lo, hi) ==
    [val |-> lo + (r.stream[(r.pos % Len(r.stream)) + 1] % (hi - lo)),
     rng |-> [r EXCEPT !.pos = @ + 1]]

\* BigUint::modpow: base^exponent mod modulus, by binary exponentiation.
RECURSIVE modpow(_, _, _)
modpow(base, exponent, modulus) ==
    IF exponent = 0 THEN 1 % modulus
    ELSE LET half == modpow(base, exponent \div 2, modulus)
             sq   == (half * half) % modulus
         IN  IF exponent % 2 = 0 THEN sq ELSE (sq * (base % modulus)) % modulus

\* The loop body without the count (a mutation of rewrite_body).
rewrite_body_without_count(s, d) == [s |-> s, d |-> (d + 1) \div 2]

\* The body of the loop of rewrite_n: d = d.div_ceil(2); s += 1.
rewrite_body(s, d) == [s |-> s + 1, d |-> (d + 1) \div 2]

\* The loop of rewrite_n: while d is even, halve it and count.
RECURSIVE rewrite_loop(_, _)
rewrite_loop(s, d) ==
    IF d % 2 = 0 THEN rewrite_loop(rewrite_body(s, d).s, rewrite_body(s, d).d)
    ELSE [s |-> s, d |-> d]

\* rewrite_n requires n odd.
rewrite_n(n) == IF n % 2 = 0 THEN Panic ELSE rewrite_loop(0, n - 1)

CertainPrime == [tag |-> "CertainPrime"]

PossiblePrime == [tag |-> "PossiblePrime"]

CompositeWitness(a) == [tag |-> "CompositeWitness", a |-> a]

CompositeEven == [tag |-> "CompositeEven"]

Zero == [tag |-> "Zero"]

One == [tag |-> "One"]

is_composite(res) == res.tag \notin {"PossiblePrime", "CertainPrime"}

is_prime(res) == ~is_composite(res)

InnerRabinState_new(n) ==
    LET sd == rewrite_n(n)
    IN  [n |-> n, n_1 |-> n - 1, s |-> sd.s, d |-> sd.d]

\* state_setup without the test for n = 2 (a mutation of state_setup).
state_setup_without_two(n) ==
    IF n = 0 THEN [tag |-> "Err", res |-> Zero]
    ELSE IF n = 1 THEN [tag |-> "Err", res |-> One]
    ELSE IF n % 2 = 0 THEN [tag |-> "Err", res |-> CompositeEven]
    ELSE [tag |-> "Ok", state |-> InnerRabinState_new(n)]

state_setup(n) ==
    IF n = 0 THEN [tag |-> "Err", res |-> Zero]
    ELSE IF n = 1 THEN [tag |-> "Err", res |-> One]
    ELSE IF n = 2 THEN [tag |-> "Err", res |-> CertainPrime]
    ELSE IF n % 2 = 0 THEN [tag |-> "Err", res |-> CompositeEven]
    ELSE [tag |-> "Ok", state |-> InnerRabinState_new(n)]

\* The first test without x == 1 (a mutation of inner_first_test).
inner_first_test_without_one(state, x) == x = state.n_1

\* x == state.n_1 || x == BigUint::one()
inner_first_test(state, x) == x = state.n_1 \/ x = 1

\* The squaring loop of inner_miller_rabin_step: for _ in 1..state.s.
RECURSIVE inner_square_loop(_, _, _)
inner_square_loop(state, x, k) ==
    IF k >= state.s THEN FALSE
    ELSE LET x2 == modpow(x, 2, state.n)
         IN  IF x2 = state.n_1 THEN TRUE
             ELSE inner_square_loop(state, x2, k + 1)

\* The squaring loop never run (a mutation of inner_squarings).
inner_squarings_skipped(state, x) == FALSE

\* TRUE when some squaring in the loop reaches n - 1.
inner_squarings(state, x) == inner_square_loop(state, x, 1)

inner_miller_rabin_step(state, a) ==
    LET x == modpow(a, state.d, state.n)
    IN  IF inner_first_test(state, x) THEN PossiblePrime
        ELSE IF inner_squarings(state, x) THEN PossiblePrime
        ELSE CompositeWitness(a)

miller_rabin_step(n, a) ==
    LET poss_state == state_setup(n)
    IN  IF poss_state.tag = "Err" THEN poss_state.res
        ELSE IF a = poss_state.state.n_1 THEN Panic
        ELSE inner_miller_rabin_step(poss_state.state, a)

\* deterministic_miller_rabin_inner: for a in range(2, n), return the first
\* composite verdict, CertainPrime if there is none.
deterministic_miller_rabin_inner(state) ==
    LET refuting == {a \in 2..(state.n - 1) :
                        is_composite(inner_miller_rabin_step(state, a))}
    IN  IF refuting = {} THEN CertainPrime
        ELSE inner_miller_rabin_step(state,
                CHOOSE a \in refuting : \A b \in refuting : a <= b)

deterministic_miller_rabin(n) ==
    LET poss_state == state_setup(n)
    IN  IF poss_state.tag = "Err" THEN poss_state.res
        ELSE deterministic_miller_rabin_inner(poss_state.state)

\* The loop of miller_rabin_with_randomness: for _ in 0..rounds, one draw
\* from [2, n) per round.
RECURSIVE random_loop(_, _, _, _)
random_loop(r, state, k, rounds) ==
    IF k >= rounds THEN [res |-> PossiblePrime, rng |-> r]
    ELSE LET draw        == gen_biguint_range(r, 2, state.n)
             partial_res == inner_miller_rabin_step(state, draw.val)
         IN  IF is_composite(partial_res)
             THEN [res |-> partial_res, rng |-> draw.rng]
             ELSE random_loop(draw.rng, state, k + 1, rounds)

\* The threshold one higher (a mutation of too_many_rounds).
too_many_rounds_off_by_one(rounds, n) == rounds > n - 2

\* BigUint::from(rounds) > state.n.clone() - (3u8)
too_many_rounds(rounds, n) == rounds > n - 3

\* Returns the verdict and the random source as the call leaves it.
miller_rabin_with_randomness(r, n, rounds) ==
    LET poss_state == state_setup(n)
    IN  IF poss_state.tag = "Err" THEN [res |-> poss_state.res, rng |-> r]
        ELSE IF too_many_rounds(rounds, poss_state.state.n)
        THEN [res |-> deterministic_miller_rabin_inner(poss_state.state),
              rng |-> r]
        ELSE random_loop(r, poss_state.state, 0, rounds)

(***************************************************************************)
(* factorization.rs.  A Factorization is its map, a function from the      *)
(* divisors to their multiplicities; a BTreeMap is the same kind of        *)
(* function, iterated in ascending key order.                              *)
(***************************************************************************)
Factorization(map) == [tag |-> "Factorization", map |-> map]

\* *map.entry(key).or_insert(0) += k
BTreeMap_entry_add(map, key, k) ==
    IF key \in DOMAIN map THEN [map EXCEPT ![key] = @ + k]
    ELSE map @@ (key :> k)

\* The entries of a BTreeMap as its iterator yields them: ascending keys.
RECURSIVE BTreeMap_into_iter(_)
BTreeMap_into_iter(map) ==
    IF DOMAIN map = {} THEN << >>
    ELSE LET k == CHOOSE x \in DOMAIN map : \A y \in DOMAIN map : x <= y
         IN  <<<<k, map[k]>>>> \o
             BTreeMap_into_iter([y \in (DOMAIN map) \ {k} |-> map[y]])

\* Factorization::new over the pairs v from position i on: zero panics, one
\* is skipped, a duplicate panics.
RECURSIVE Factorization_new_loop(_, _, _)
Factorization_new_loop(v, i, map) ==
    IF i > Len(v) THEN Factorization(map)
    ELSE IF v[i][1] = 0 THEN Panic
    ELSE IF v[i][1] = 1 THEN Factorization_new_loop(v, i + 1, map)
    ELSE IF v[i][1] \in DOMAIN map THEN Panic
    ELSE Factorization_new_loop(v, i + 1, map @@ (v[i][1] :> v[i][2]))

Factorization_new(v) == Factorization_new_loop(v, 1, << >>)

\* Factorization::n: the product of div^mult over the map.
RECURSIVE Factorization_n_loop(_, _, _)
Factorization_n_loop(entries, i, start) ==
    IF i > Len(entries) THEN start
    ELSE Factorization_n_loop(entries, i + 1,
                              start * (entries[i][1] ^ entries[i][2]))

Factorization_n(self) ==
    Factorization_n_loop(BTreeMap_into_iter(self.map), 1, 1)

\* Factorization::merge: add the multiplicities of fact into self.
RECURSIVE Factorization_merge_loop(_, _, _)
Factorization_merge_loop(map, entries, i) ==
    IF i > Len(entries) THEN Factorization(map)
    ELSE Factorization_merge_loop(
             BTreeMap_entry_add(map, entries[i][1], entries[i][2]),
             entries, i + 1)

Factorization_merge(self, fact) ==
    Factorization_merge_loop(self.map, BTreeMap_into_iter(fact.map), 1)

\* The loop body that never records a divisor (a mutation of trial_body).
trial_body_without_entry(st) ==
    IF st.n % st.s = 0
    THEN [n |-> st.n \div st.s, s |-> st.s, res |-> st.res]
    ELSE [n |-> st.n, s |-> st.s + 1, res |-> st.res]

\* One iteration of the loop of trial_factorization over its locals n, s
\* and res.
trial_body(st) ==
    IF st.n % st.s = 0
    THEN [n |-> st.n \div st.s, s |-> st.s,
          res |-> BTreeMap_entry_add(st.res, st.s, 1)]
    ELSE [n |-> st.n, s |-> st.s + 1, res |-> st.res]

RECURSIVE trial_loop(_)
trial_loop(st) == IF st.n # 1 THEN trial_loop(trial_body(st)) ELSE st.res

trial_factorization(n) ==
    IF n = 0 THEN Panic
    ELSE IF n = 1 THEN Factorization_new(<< >>)
    ELSE Factorization_new(
             BTreeMap_into_iter(trial_loop([n |-> n, s |-> 2, res |-> << >>])))

\* Integer::gcd of BigUint, by Euclid's algorithm; gcd(0, n) = n.
RECURSIVE BigUint_gcd(_, _)
BigUint_gcd(a, b) == IF b = 0 THEN a ELSE BigUint_gcd(b, a % b)

\* x -> x^2 + b mod n
rho_f(x, b, n) == (modpow(x, 2, n) + b) % n

\* diff.gcd(&n) for diff = |A - B|
rho_gcd(A, B, n) == BigUint_gcd(IF A >= B THEN A - B ELSE B - A, n)

\* The loop of pollard_rho_single_factor: A takes one step and B two until
\* the gcd of their difference with n is not one.  The value is that gcd.
RECURSIVE rho_loop(_, _, _, _)
rho_loop(A, B, b, n) ==
    IF rho_gcd(rho_f(A, b, n), rho_f(rho_f(B, b, n), b, n), n) = 1
    THEN rho_loop(rho_f(A, b, n), rho_f(rho_f(B, b, n), b, n), b, n)
    ELSE rho_gcd(rho_f(A, b, n), rho_f(rho_f(B, b, n), b, n), n)

\* The test g > n instead (a mutation of rho_degenerate).
rho_degenerate_strict(g, n) == g > n

\* if g >= n { None }
rho_degenerate(g, n) == g >= n

rho_result(g, n) == IF rho_degenerate(g, n) THEN None ELSE Some(g)

\* pollard_rho_single_factor, after s has been drawn (draw_s): b is drawn
\* from [1, n - 2); the subtraction panics below zero and so does an empty
\* range.
rho_with_start(draw_s, n) ==
    IF n < 2 \/ n - 2 <= 1 THEN [res |-> Panic, rng |-> draw_s.rng]
    ELSE [res |-> rho_result(
                      rho_loop(draw_s.val, draw_s.val,
                               gen_biguint_range(draw_s.rng, 1, n - 2).val, n),
                      n),
          rng |-> gen_biguint_range(draw_s.rng, 1, n - 2).rng]

\* s is drawn from [0, n): an empty range panics.
pollard_rho_single_factor(r, n) ==
    IF n = 0 THEN [res |-> Panic, rng |-> r]
    ELSE rho_with_start(gen_biguint_range(r, 0, n), n)

\* pollard_rho_single_factor_repeat from round k on; partial is the outcome
\* of round k.
RECURSIVE rho_repeat_loop(_, _, _, _)
rho_repeat_next(partial, n, k, rounds) ==
    IF partial.res.tag \in {"Some", "Panic"} THEN partial
    ELSE rho_repeat_loop(partial.rng, n, k + 1, rounds)

rho_repeat_loop(r, n, k, rounds) ==
    IF k >= rounds THEN [res |-> None, rng |-> r]
    ELSE rho_repeat_next(pollard_rho_single_factor(r, n), n, k, rounds)

pollard_rho_single_factor_repeat(r, n, rounds) ==
    rho_repeat_loop(r, n, 0, rounds)

PollardRhoParameters(trial_bound, rho_rounds, miller_rabin_rounds) ==
    [trial_bound |-> trial_bound, rho_rounds |-> rho_rounds,
     miller_rabin_rounds |-> miller_rabin_rounds]

\* pollard_rho_factorisation.  The outcome res is Panic, None or
\* Some(Factorization); rng is the random source as the call leaves it.
RECURSIVE pollard_rho_factorisation(_, _, _)
\* The factor left out of the result (a mutation of rho_merge).
rho_merge_without_factor(rest, factor) == rest

\* the recursive call has returned rest: ? propagates None, merge adds factor
rho_merge(rest, factor) ==
    IF rest.res.tag # "Some" THEN rest
    ELSE [res |-> Some(Factorization_merge(
                           rest.res.val,
                           Factorization_new(<<<<factor, 1>>>>))),
          rng |-> rest.rng]

\* rho_merge and rho_split with the factor found so far returned when the
\* recursive call comes back empty-handed.
rho_merge_keeping_partial(rest, factor) ==
    IF rest.res.tag = "Panic" THEN rest
    ELSE IF rest.res.tag = "None"
    THEN [res |-> Some(Factorization_new(<<<<factor, 1>>>>)), rng |-> rest.rng]
    ELSE [res |-> Some(Factorization_merge(
                           rest.res.val,
                           Factorization_new(<<<<factor, 1>>>>))),
          rng |-> rest.rng]

rho_split_keeping_partial(found, params, n) ==
    IF found.res.tag # "Some" THEN found
    ELSE rho_merge_keeping_partial(
             pollard_rho_factorisation(found.rng, params,
                                       n \div found.res.val),
             found.res.val)

\* pollard_rho_single_factor_repeat has returned found
rho_split(found, params, n) ==
    IF found.res.tag # "Some" THEN found
    ELSE rho_merge(
             pollard_rho_factorisation(found.rng, params,
                                       n \div found.res.val),
             found.res.val)

\* miller_rabin_with_randomness has returned verdict
rho_after_primality(verdict, params, n) ==
    IF is_prime(verdict.res)
    THEN [res |-> Some(Factorization_new(<<<<n, 1>>>>)), rng |-> verdict.rng]
    ELSE IF n < params.trial_bound
    THEN [res |-> Some(trial_factorization(n)), rng |-> verdict.rng]
    ELSE rho_split(
             pollard_rho_single_factor_repeat(verdict.rng, n,
                                              params.rho_rounds),
             params, n)

pollard_rho_factorisation(r, params, n) ==
    IF n = 0 THEN [res |-> Panic, rng |-> r]
    ELSE IF n = 1 THEN [res |-> Some(Factorization_new(<< >>)), rng |-> r]
    ELSE rho_after_primality(
             miller_rabin_with_randomness(r, n, params.miller_rabin_rounds),
             params, n)

(***************************************************************************)
(* fields/primefields.rs: field_generate!(PrimeField4999, 4999), and the   *)
(* default methods of the Field trait in fields/mod.rs.  An element is its *)
(* representative el.                                                      *)
(***************************************************************************)
PRIMEFIELD4999_MODULO == 4999

Field_new(el) == el % PRIMEFIELD4999_MODULO

Field_zero == 0

Field_one == 1

Field_is_zero(a) == a = Field_zero

Field_add(a, b) == Field_new(a + b)

Field_mul(a, b) == Field_new(a * b)

Field_neg(a) ==
    IF Field_is_zero(a) THEN Field_zero ELSE PRIMEFIELD4999_MODULO - a

Field_sub(a, b) == Field_add(a, Field_neg(b))

\* Option::unwrap panics on None.
unwrap(o) == IF o.tag = "Some" THEN Ok(o.val) ELSE Panic

\* The tail of invert with a_coeff returned whatever its sign.
invert_from_gcd_sign_ignored(res) ==
    IF res.tag = "Panic" THEN Panic
    ELSE IF res.d # 1 THEN Panic
    ELSE Some(Field_new(res.a_coeff))

\* The tail of invert, after egcd_typical has returned res: the assertion
\* d = 1, and the sign re-derived from negative.  The unsigned subtraction
\* MODULO - a_coeff panics if it would go below zero.
invert_from_gcd(res) ==
    IF res.tag = "Panic" THEN Panic
    ELSE IF res.d # 1 THEN Panic
    ELSE IF res.negative
         THEN IF res.a_coeff > PRIMEFIELD4999_MODULO THEN Panic
              ELSE Some(Field_new(PRIMEFIELD4999_MODULO - res.a_coeff))
         ELSE Some(Field_new(res.a_coeff))

\* invert: None for zero; otherwise egcd_typical against the modulus.
Field_invert(a) ==
    IF a = 0 THEN None
    ELSE invert_from_gcd(egcd_typical(a, PRIMEFIELD4999_MODULO))

\* The step and inverse closures handed to divide_and_conquer, by name.
apply_step(step, x, y) ==
    IF step = "add" THEN Field_add(x, y) ELSE Field_mul(x, y)

apply_inv(inv, x) ==
    IF inv = "neg" THEN Ok(Field_neg(x)) ELSE unwrap(Field_invert(x))

RECURSIVE divide_and_conquer_impl(_, _, _, _)
divide_and_conquer_impl(base, i, id, step) ==
    IF i = 0 THEN id
    ELSE IF i = 1 THEN base
    ELSE IF i % 2 = 0
         THEN LET p == divide_and_conquer_impl(base, i \div 2, id, step)
              IN  apply_step(step, p, p)
         ELSE LET p == divide_and_conquer_impl(base, (i - 1) \div 2, id, step)
              IN  apply_step(step, base, apply_step(step, p, p))

divide_and_conquer(base, i, id, inv, step) ==
    IF i = 0 THEN Ok(id)
    ELSE IF i < 0
         THEN LET b == apply_inv(inv, base)
              IN  IF b.tag = "Panic" THEN Panic
                  ELSE Ok(divide_and_conquer_impl(b.val, 0 - i, id, step))
         ELSE Ok(divide_and_conquer_impl(base, i, id, step))

\* scale cannot panic: its inverse is neg.
Field_scale(a, i) == divide_and_conquer(a, i, Field_zero, "neg", "add").val

\* pow panics on a negative exponent of a base that has no inverse.
Field_pow(a, i) == divide_and_conquer(a, i, Field_one, "invert", "mul")

Field_square(a) == Field_pow(a, 2).val

Field_integer_embed(i) == Field_scale(Field_one, i)

\* random: gen_biguint_range(0, MODULO), unchecked.
Field_random(r) == gen_biguint_range(r, 0, PRIMEFIELD4999_MODULO)

(***************************************************************************)
(* rings/integers_mod_ring.rs: ring_generate!(IntegersMod425, 425).  An     *)
(* element is its representative el.                                       *)
(***************************************************************************)
INTEGERSMOD425_MODULO == 425

Ring_new(el) == el % INTEGERSMOD425_MODULO

\* new_unchecked stores el as it is.
Ring_new_unchecked(el) == el

Ring_zero == Ring_new_unchecked(0)

Ring_one == Ring_new_unchecked(1)

Ring_is_zero(a) == a = Ring_zero

Ring_add(a, rhs) == Ring_new(a + rhs)

\* add_assign: el += rhs.el; el %= MODULO
Ring_add_assign(a, rhs) == (a + rhs) % INTEGERSMOD425_MODULO

Ring_mul(a, rhs) == Ring_new(a * rhs)

\* mul_assign: el *= rhs.el; el %= MODULO
Ring_mul_assign(a, rhs) == (a * rhs) % INTEGERSMOD425_MODULO

\* neg without the test for zero (a mutation of Ring_neg).
Ring_neg_without_zero_test(a) ==
    Ring_new_unchecked(INTEGERSMOD425_MODULO - a)

\* neg: zero stays zero; otherwise MODULO - el, unchecked.
Ring_neg(a) ==
    IF Ring_is_zero(a) THEN Ring_zero
    ELSE Ring_new_unchecked(INTEGERSMOD425_MODULO - a)

Ring_sub(a, rhs) == Ring_add(a, Ring_neg(rhs))

\* random: gen_biguint_range(0, MODULO), unchecked.
Ring_random(r) == gen_biguint_range(r, 0, INTEGERSMOD425_MODULO)

(***************************************************************************)
(* double_and_add.rs.  The operation, identity and inversion closures of   *)
(* a state are named: the callers in the repository pass BigUint addition  *)
(* and multiplication (the tests) and the ring operations (rings/mod.rs).  *)
(***************************************************************************)
apply_operation(operation, x, y) ==
    IF operation = "BigUint_add" THEN x + y
    ELSE IF operation = "BigUint_mul" THEN x * y
    ELSE IF operation = "Ring_add" THEN Ring_add(x, y)
    ELSE Ring_mul(x, y)

apply_identity(identity) ==
    IF identity = "BigUint_zero" THEN 0
    ELSE IF identity = "BigUint_one" THEN 1
    ELSE IF identity = "Ring_zero" THEN Ring_zero
    ELSE Ring_one

apply_inversion(inversion, x) == Ring_neg(x)

PositiveDoubleAndAddState(base, operation, identity) ==
    [base |-> base, operation |-> operation, identity |-> identity]

PossiblyNegativeDoubleAndAddState(base, operation, identity, inversion) ==
    [base |-> base, operation |-> operation, identity |-> identity,
     inversion |-> inversion]

\* while exponent.is_even(): double the base, halve the exponent.
RECURSIVE daa_even_loop(_, _, _)
daa_even_loop(operation, base, exponent) ==
    IF exponent % 2 = 0
    THEN daa_even_loop(operation, apply_operation(operation, base, base),
                       exponent \div 2)
    ELSE [base |-> base, exponent |-> exponent]

\* The accumulation at every bit (a mutation of daa_accumulate).
daa_accumulate_always(operation, acc, base, exponent) ==
    apply_operation(operation, acc, base)

\* if exponent.is_odd() { acc = operation(acc, base) }
daa_accumulate(operation, acc, base, exponent) ==
    IF exponent % 2 = 1 THEN apply_operation(operation, acc, base) ELSE acc

\* while exponent > 1: halve the exponent, double the base, accumulate.
RECURSIVE daa_odd_loop(_, _, _, _)
daa_odd_loop(operation, acc, base, exponent) ==
    IF exponent > 1
    THEN daa_odd_loop(operation,
                      daa_accumulate(operation, acc,
                                     apply_operation(operation, base, base),
                                     exponent \div 2),
                      apply_operation(operation, base, base),
                      exponent \div 2)
    ELSE acc

\* After the first loop has left st: base for exponent one, else the
\* second loop from acc = base.
daa_finish(operation, st) ==
    IF st.exponent = 1 THEN st.base
    ELSE daa_odd_loop(operation, st.base, st.base, st.exponent)

positive_double_and_add(state, exponent) ==
    IF exponent = 0 THEN apply_identity(state.identity)
    ELSE daa_finish(state.operation,
                    daa_even_loop(state.operation, state.base, exponent))

\* The signed variant: a negative exponent inverts the base and negates
\* the exponent; the two loops are the same code again.
possibly_negative_double_and_add(state, exponent) ==
    IF exponent = 0 THEN apply_identity(state.identity)
    ELSE IF exponent < 0
    THEN daa_finish(state.operation,
                    daa_even_loop(state.operation,
                                  apply_inversion(state.inversion, state.base),
                                  0 - exponent))
    ELSE daa_finish(state.operation,
                    daa_even_loop(state.operation, state.base, exponent))

(***************************************************************************)
(* rings/mod.rs: the default methods of the Ring trait, for IntegersMod425. *)
(***************************************************************************)
Ring_scale(a, i) ==
    possibly_negative_double_and_add(
        PossiblyNegativeDoubleAndAddState(a, "Ring_add", "Ring_zero",
                                          "Ring_neg"), i)

Ring_positive_pow(a, i) ==
    IF Ring_is_zero(a) THEN Ring_zero
    ELSE positive_double_and_add(
             PositiveDoubleAndAddState(a, "Ring_mul", "Ring_one"), i)

\* integer_embed with the sign of the integer dropped.
Ring_integer_embed_of_magnitude(i) ==
    Ring_scale(Ring_one, IF i < 0 THEN 0 - i ELSE i)

Ring_integer_embed(i) == Ring_scale(Ring_one, i)

(***************************************************************************)
(* poly.rs: DensePolynomial<F> over F = PrimeField4999.  A polynomial is   *)
(* its coefficient vector coeff, ascending; position k of the source is    *)
(* index k + 1 here.                                                       *)
(***************************************************************************)
\* new: collect, then pop trailing zeros.
RECURSIVE DensePolynomial_new(_)
DensePolynomial_new(coeff) ==
    IF Len(coeff) = 0 THEN coeff
    ELSE IF ~Field_is_zero(coeff[Len(coeff)]) THEN coeff
    ELSE DensePolynomial_new(SubSeq(coeff, 1, Len(coeff) - 1))

DensePolynomial_zero == << >>

DensePolynomial_degree(f) == IF Len(f) = 0 THEN None ELSE Some(Len(f) - 1)

DensePolynomial_is_zero(f) == DensePolynomial_degree(f) = None

DensePolynomial_coeff(f, pos) == IF pos < Len(f) THEN f[pos + 1] ELSE Field_zero

\* new_degree_list: degree_list is the HashMap, a function from the listed
\* degrees to their coefficients.
DensePolynomial_new_degree_list(degree_list) ==
    LET nonzero == {k \in DOMAIN degree_list : ~Field_is_zero(degree_list[k])}
    IN  IF nonzero = {} THEN DensePolynomial_zero
        ELSE LET max_degree == CHOOSE k \in nonzero : \A l \in nonzero : l <= k
             IN  IF max_degree = 0 THEN DensePolynomial_zero
                 ELSE DensePolynomial_new(
                        [i \in 1..(max_degree + 1) |->
                            IF (i - 1) \in nonzero THEN degree_list[i - 1]
                            ELSE Field_zero])

\* The two nested loops of mult: for i in 0..n, for j in 0..m.
RECURSIVE mult_loop(_, _, _, _, _, _, _)
mult_loop(f, g, n, m, i, j, res) ==
    IF i >= n THEN res
    ELSE IF j >= m THEN mult_loop(f, g, n, m, i + 1, 0, res)
    ELSE mult_loop(f, g, n, m, i, j + 1,
            [res EXCEPT ![i + j + 1] =
                Field_add(@, Field_mul(DensePolynomial_coeff(f, i),
                                       DensePolynomial_coeff(g, j)))])

DensePolynomial_mult(f, g) ==
    IF DensePolynomial_is_zero(f) \/ DensePolynomial_is_zero(g)
    THEN DensePolynomial_zero
    ELSE LET n == DensePolynomial_degree(f).val
             m == DensePolynomial_degree(g).val
         IN  DensePolynomial_new(
                mult_loop(f, g, n, m, 0, 0, [k \in 1..(m + n) |-> Field_zero]))

Reverse(v) == [k \in 1..Len(v) |-> v[Len(v) + 1 - k]]

\* usize arithmetic wraps modulo 2^64 when overflow checks are off.  The
\* checker's integers are narrower, so 2^30 stands for 2^64: a wrapped value
\* only ever meets vector lengths, which are far below either.
USIZE_MODULUS == 2^30

\* The inner loop of div_quotient_rem: for j in 1..den_deg.  Indexing past
\* the end of out panics.
RECURSIVE div_inner_loop(_, _, _, _, _, _)
div_inner_loop(out, divisor, coeff, i, j, den_deg) ==
    IF j >= den_deg THEN Ok(out)
    ELSE IF i + j >= Len(out) THEN Panic
    ELSE div_inner_loop(
            [out EXCEPT ![i + j + 1] =
                Field_add(@, Field_mul(Field_neg(divisor[j + 1]), coeff))],
            divisor, coeff, i, j + 1, den_deg)

\* The outer loop of div_quotient_rem: for i in 0..count.
RECURSIVE div_outer_loop(_, _, _, _, _, _)
div_outer_loop(out, divisor, normalizer, i, count, den_deg) ==
    IF i >= count THEN Ok(out)
    ELSE IF i >= Len(out) THEN Panic
    ELSE LET coeff  == Field_mul(out[i + 1], normalizer)
             scaled == [out EXCEPT ![i + 1] = coeff]
             next   == IF ~Field_is_zero(coeff)
                       THEN div_inner_loop(scaled, divisor, coeff, i, 1, den_deg)
                       ELSE Ok(scaled)
         IN  IF next.tag = "Panic" THEN Panic
             ELSE div_outer_loop(next.val, divisor, normalizer, i + 1, count,
                                 den_deg)

\* div_quotient_rem.  overflow_checks tells whether the build panics on
\* usize overflow (debug) or wraps (release) in num_deg - den_deg + 1.
DensePolynomial_div_quotient_rem(f, g, overflow_checks) ==
    IF DensePolynomial_is_zero(g) THEN Panic
    ELSE IF DensePolynomial_is_zero(f)
    THEN [tag |-> "Pair", quotient |-> DensePolynomial_zero,
          remainder |-> DensePolynomial_zero]
    ELSE LET num_deg    == Len(f)
             den_deg    == Len(g)
             divisor    == Reverse(g)
             normalizer == Field_invert(divisor[1])
             count      == (((num_deg - den_deg) % USIZE_MODULUS) + 1) % USIZE_MODULUS
         IN  IF normalizer.tag # "Some" THEN Panic
             ELSE IF num_deg < den_deg /\ overflow_checks THEN Panic
             ELSE LET looped == div_outer_loop(Reverse(f), divisor,
                                               normalizer.val, 0, count, den_deg)
                  IN  IF looped.tag = "Panic" THEN Panic
                      ELSE LET out       == Reverse(looped.val)
                               separator == den_deg - 1
                           IN  IF separator > Len(out) THEN Panic
                               ELSE [tag |-> "Pair",
                                     quotient |-> DensePolynomial_new(
                                         SubSeq(out, separator + 1, Len(out))),
                                     remainder |-> DensePolynomial_new(
                                         SubSeq(out, 1, separator))]

\* new_integers: it is the sequence of integers handed in.
DensePolynomial_new_integers(it) ==
    DensePolynomial_new([k \in 1..Len(it) |-> Field_integer_embed(it[k])])

\* add with the coefficient sums stored as computed.
DensePolynomial_add_unstripped(f, g) ==
    [k \in 1..Max(Len(f), Len(g)) |->
        Field_add(DensePolynomial_coeff(f, k - 1),
                  DensePolynomial_coeff(g, k - 1))]

DensePolynomial_add(f, g) ==
    IF DensePolynomial_is_zero(f) THEN g
    ELSE IF DensePolynomial_is_zero(g) THEN f
    ELSE LET deg == Max(DensePolynomial_degree(f).val,
                        DensePolynomial_degree(g).val)
         IN  DensePolynomial_new(
                [k \in 1..(deg + 1) |->
                    Field_add(DensePolynomial_coeff(f, k - 1),
                              DensePolynomial_coeff(g, k - 1))])

DensePolynomial_negate(f) ==
    DensePolynomial_new([k \in 1..Len(f) |-> Field_neg(f[k])])

\* shift: d zeros, then the coefficients.
DensePolynomial_shift(f, d) ==
    DensePolynomial_new([k \in 1..(d + Len(f)) |->
                            IF k <= d THEN Field_zero ELSE f[k - d]])

\* The body of evaluate's loop with the coefficients taken in ascending
\* order.
evaluate_body_ascending(f, x, n, i, b) ==
    Field_add(DensePolynomial_coeff(f, i), Field_mul(b, x))

\* The body of evaluate's loop: b = coeff(n - i) + b * x.
evaluate_body(f, x, n, i, b) ==
    Field_add(DensePolynomial_coeff(f, n - i), Field_mul(b, x))

\* The loop of evaluate: for i in 1..=n.
RECURSIVE evaluate_loop(_, _, _, _, _)
evaluate_loop(f, x, n, i, b) ==
    IF i > n THEN b
    ELSE evaluate_loop(f, x, n, i + 1, evaluate_body(f, x, n, i, b))

DensePolynomial_evaluate(f, x) ==
    IF DensePolynomial_degree(f) = None THEN Field_zero
    ELSE LET n == DensePolynomial_degree(f).val
         IN  evaluate_loop(f, x, n, 1, DensePolynomial_coeff(f, n))

(***************************************************************************)
(* ec.rs: GeneralForm<F>, the curve                                        *)
(*   y^2 + a_1 x y + a_3 y = x^3 + a_2 x^2 + a_4 x + a_6.                  *)
(***************************************************************************)
GeneralForm(a_1, a_2, a_3, a_4, a_6) ==
    [a_1 |-> a_1, a_2 |-> a_2, a_3 |-> a_3, a_4 |-> a_4, a_6 |-> a_6]

b_2(c) == Field_add(Field_square(c.a_1), Field_scale(c.a_4, 4))

b_4(c) == Field_add(Field_scale(c.a_4, 2), Field_mul(c.a_1, c.a_3))

b_6(c) == Field_add(Field_square(c.a_3), Field_scale(c.a_6, 4))

b_8(c) ==
    Field_sub(
        Field_add(
            Field_sub(
                Field_add(Field_mul(Field_square(c.a_1), c.a_6),
                          Field_scale(Field_mul(c.a_2, c.a_6), 4)),
                Field_mul(Field_mul(c.a_1, c.a_3), c.a_4)),
            Field_mul(c.a_2, Field_square(c.a_3))),
        Field_square(c.a_4))

c_4(c) == Field_sub(Field_square(b_2(c)), Field_scale(b_4(c), 24))

\* Point<F>: Point((x, y)) or Infinity.
Point(x, y) == [tag |-> "Point", x |-> x, y |-> y]

Infinity == [tag |-> "Infinity"]

GeneralForm_is_on_curve(c, p) ==
    IF p.tag = "Infinity" THEN TRUE
    ELSE Field_add(Field_add(Field_square(p.y),
                             Field_mul(Field_mul(c.a_1, p.x), p.y)),
                   Field_mul(c.a_3, p.y))
         = Field_add(Field_add(Field_add(Field_pow(p.x, 3).val,
                                         Field_mul(c.a_2, Field_square(p.x))),
                               Field_mul(c.a_4, p.x)),
                     c.a_6)

\* negate with the a_3 term left out.
GeneralForm_negate_without_a_3(c, p) ==
    IF p.tag = "Infinity" THEN Infinity
    ELSE Point(p.x, Field_sub(Field_neg(p.y), Field_mul(c.a_1, p.x)))

GeneralForm_negate(c, p) ==
    IF p.tag = "Infinity" THEN Infinity
    ELSE Point(p.x,
               Field_sub(Field_sub(Field_neg(p.y), Field_mul(c.a_1, p.x)),
                         c.a_3))

discriminant(c) ==
    Field_add(
        Field_sub(
            Field_sub(Field_mul(Field_neg(Field_square(b_2(c))), b_8(c)),
                      Field_scale(Field_mul(Field_square(b_4(c)), b_4(c)), 8)),
            Field_scale(Field_square(b_6(c)), 27)),
        Field_scale(Field_mul(Field_mul(b_2(c), b_4(c)), b_6(c)), 9))

j_invariant(c) ==
    IF Field_is_zero(discriminant(c)) THEN Panic
    ELSE LET c_4_cube == Field_mul(Field_square(c_4(c)), c_4(c))
             inv      == Field_invert(discriminant(c))
         IN  IF inv.tag # "Some" THEN Panic
             ELSE Ok(Field_mul(c_4_cube, inv.val))

from_j_invariant(j) ==
    IF Field_is_zero(j)
    THEN Ok(GeneralForm(Field_zero, Field_zero, Field_one, Field_zero, Field_zero))
    ELSE IF j = Field_integer_embed(1728)
    THEN Ok(GeneralForm(Field_zero, Field_zero, Field_zero, Field_one, Field_zero))
    ELSE LET t == Field_invert(Field_sub(j, Field_integer_embed(1728)))
         IN  IF t.tag # "Some" THEN Panic
             ELSE Ok(GeneralForm(Field_one, Field_zero, Field_zero,
                                 Field_scale(t.val, 36), t.val))

(***************************************************************************)
(* Calls.  The initial state holds a pending call with its arguments; the  *)
(* action of the entry point runs it to completion and records the outcome.*)
(***************************************************************************)
NoRng == [stream |-> <<0>>, pos |-> 0]

Pending(name, argset) ==
    /\ pc = "ready"
    /\ op = name
    /\ args \in argset
    /\ ret = None
    /\ rng = NoRng

Done(name) == pc = "done" /\ op = name

InitGcd == Pending("egcd", (0..MaxGcdArg) \X (0..MaxGcdArg))

Call_egcd ==
    /\ pc = "ready" /\ op = "egcd"
    /\ pc' = "done"
    /\ ret' = egcd(args[1], args[2])
    /\ UNCHANGED <<op, args, rng>>

NextGcd == Call_egcd

SpecGcd == InitGcd /\ [][NextGcd]_vars

\* Field elements are the canonical representatives 0..MODULO-1.
FieldElements == 0..(PRIMEFIELD4999_MODULO - 1)

InitField == Pending("invert", {<<e>> : e \in FieldElements})

Call_invert ==
    /\ pc = "ready" /\ op = "invert"
    /\ pc' = "done"
    /\ ret' = Field_invert(args[1])
    /\ UNCHANGED <<op, args, rng>>

NextField == Call_invert

SpecField == InitField /\ [][NextField]_vars

\* The coefficients polynomials are built from: small field elements and
\* their negations.
PolyCoeffs == (0..MaxCoeff) \cup {Field_neg(c) : c \in 0..MaxCoeff}

\* Polynomials as the constructors leave them: no trailing zero.
Polys ==
    {f \in UNION {[1..n -> PolyCoeffs] : n \in 0..MaxPolyLen} :
        Len(f) = 0 \/ ~Field_is_zero(f[Len(f)])}

DegreeLists ==
    UNION {[S -> PolyCoeffs] : S \in SUBSET (0..MaxListDegree)}

InitPoly ==
    \/ Pending("new_degree_list", {<<dl>> : dl \in DegreeLists})
    \/ Pending("mult", Polys \X Polys)
    \/ Pending("div_quotient_rem", Polys \X Polys \X BOOLEAN)

Call_new_degree_list ==
    /\ pc = "ready" /\ op = "new_degree_list"
    /\ pc' = "done"
    /\ ret' = DensePolynomial_new_degree_list(args[1])
    /\ UNCHANGED <<op, args, rng>>

Call_mult ==
    /\ pc = "ready" /\ op = "mult"
    /\ pc' = "done"
    /\ ret' = DensePolynomial_mult(args[1], args[2])
    /\ UNCHANGED <<op, args, rng>>

Call_div_quotient_rem ==
    /\ pc = "ready" /\ op = "div_quotient_rem"
    /\ pc' = "done"
    /\ ret' = DensePolynomial_div_quotient_rem(args[1], args[2], args[3])
    /\ UNCHANGED <<op, args, rng>>

NextPoly ==
    \/ Call_new_degree_list
    \/ Call_mult
    \/ Call_div_quotient_rem

SpecPoly == InitPoly /\ [][NextPoly]_vars

\* The random sources: every stream of 1..MaxRngLen raw values, each large
\* enough to reach every witness in [2, n).
RngStreams ==
    UNION {[1..l -> 0..(MaxMrN - 3)] : l \in 1..MaxRngLen}

InitPrimes ==
    \/ Pending("deterministic_miller_rabin", {<<n>> : n \in 0..MaxDetN})
    \/ Pending("miller_rabin_step",
               {<<n, a>> : n \in 0..MaxMrN, a \in 0..MaxMrN})
    \/ /\ pc = "ready"
       /\ op = "miller_rabin_with_randomness"
       /\ args \in (0..MaxMrN) \X (0..MaxMrN)
       /\ ret = None
       /\ \E stream \in RngStreams : rng = [stream |-> stream, pos |-> 0]

Call_deterministic_miller_rabin ==
    /\ pc = "ready" /\ op = "deterministic_miller_rabin"
    /\ pc' = "done"
    /\ ret' = deterministic_miller_rabin(args[1])
    /\ UNCHANGED <<op, args, rng>>

Call_miller_rabin_step ==
    /\ pc = "ready" /\ op = "miller_rabin_step"
    /\ pc' = "done"
    /\ ret' = miller_rabin_step(args[1], args[2])
    /\ UNCHANGED <<op, args, rng>>

Call_miller_rabin_with_randomness ==
    /\ pc = "ready" /\ op = "miller_rabin_with_randomness"
    /\ pc' = "done"
    /\ LET out == miller_rabin_with_randomness(rng, args[1], args[2])
       IN  /\ ret' = out.res
           /\ rng' = out.rng
    /\ UNCHANGED <<op, args>>

NextPrimes ==
    \/ Call_deterministic_miller_rabin
    \/ Call_miller_rabin_step
    \/ Call_miller_rabin_with_randomness

SpecPrimes == InitPrimes /\ [][NextPrimes]_vars

Curves ==
    {GeneralForm(a_1, a_2, a_3, a_4, a_6) :
        a_1 \in 0..MaxCurveCoeff, a_2 \in 0..MaxCurveCoeff,
        a_3 \in 0..MaxCurveCoeff, a_4 \in 0..MaxCurveCoeff,
        a_6 \in 0..MaxCurveCoeff}

InitEc ==
    \/ Pending("from_j_invariant", {<<j>> : j \in FieldElements})
    \/ Pending("j_invariant", {<<c>> : c \in Curves})

Call_from_j_invariant ==
    /\ pc = "ready" /\ op = "from_j_invariant"
    /\ pc' = "done"
    /\ ret' = from_j_invariant(args[1])
    /\ UNCHANGED <<op, args, rng>>

Call_j_invariant ==
    /\ pc = "ready" /\ op = "j_invariant"
    /\ pc' = "done"
    /\ ret' = j_invariant(args[1])
    /\ UNCHANGED <<op, args, rng>>

NextEc ==
    \/ Call_from_j_invariant
    \/ Call_j_invariant

SpecEc == InitEc /\ [][NextEc]_vars

\* Ring elements are the canonical representatives 0..MODULO-1.
RingElements == 0..(INTEGERSMOD425_MODULO - 1)

DaaStates ==
    {PositiveDoubleAndAddState(b, "BigUint_add", "BigUint_zero") :
        b \in 0..MaxDaaBase}
    \cup {PositiveDoubleAndAddState(b, "BigUint_mul", "BigUint_one") :
        b \in 0..MaxDaaBase}
    \cup {PositiveDoubleAndAddState(b, "Ring_mul", "Ring_one") :
        b \in RingElements}

DaaFieldBases ==
    (0..MaxDaaFieldBase) \cup {Field_neg(b) : b \in 0..MaxDaaFieldBase}

InitDaa ==
    \/ Pending("positive_double_and_add", DaaStates \X (0..MaxExponent))
    \/ Pending("Ring_scale",
               RingElements \X ((0 - MaxExponent)..MaxExponent))
    \/ Pending("Ring_positive_pow", RingElements \X (0..MaxExponent))
    \/ Pending("Field_scale",
               DaaFieldBases \X ((0 - MaxExponent)..MaxExponent))
    \/ Pending("Field_pow",
               DaaFieldBases \X ((0 - MaxExponent)..MaxExponent))

Call_positive_double_and_add ==
    /\ pc = "ready" /\ op = "positive_double_and_add"
    /\ pc' = "done"
    /\ ret' = positive_double_and_add(args[1], args[2])
    /\ UNCHANGED <<op, args, rng>>

Call_Ring_scale ==
    /\ pc = "ready" /\ op = "Ring_scale"
    /\ pc' = "done"
    /\ ret' = Ring_scale(args[1], args[2])
    /\ UNCHANGED <<op, args, rng>>

Call_Ring_positive_pow ==
    /\ pc = "ready" /\ op = "Ring_positive_pow"
    /\ pc' = "done"
    /\ ret' = Ring_positive_pow(args[1], args[2])
    /\ UNCHANGED <<op, args, rng>>

Call_Field_scale ==
    /\ pc = "ready" /\ op = "Field_scale"
    /\ pc' = "done"
    /\ ret' = Field_scale(args[1], args[2])
    /\ UNCHANGED <<op, args, rng>>

\* The outcome of pow is Ok(value) or Panic.
Call_Field_pow ==
    /\ pc = "ready" /\ op = "Field_pow"
    /\ pc' = "done"
    /\ ret' = Field_pow(args[1], args[2])
    /\ UNCHANGED <<op, args, rng>>

NextDaa ==
    \/ Call_positive_double_and_add
    \/ Call_Ring_scale
    \/ Call_Ring_positive_pow
    \/ Call_Field_scale
    \/ Call_Field_pow

SpecDaa == InitDaa /\ [][NextDaa]_vars

\* Sequences of operations on one element of IntegersMod425 or of
\* PrimeField4999 (op names the type).  ret is the element produced last,
\* args the operation that produced it; a binary operation takes its right
\* operand from the elements new builds, or the element itself.
RawValues(modulo) ==
    UNION {{el, modulo - 1 - el, modulo + el, modulo + modulo - 1 - el} :
              el \in 0..MaxCanonOperand}

RingOperands == {Ring_new(el) : el \in RawValues(INTEGERSMOD425_MODULO)}

FieldOperands == {Field_new(el) : el \in RawValues(PRIMEFIELD4999_MODULO)}

CanonStreams == {<<v>> : v \in 0..MaxCanonOperand}

InitCanon ==
    /\ pc = "live"
    /\ args = <<"new">>
    /\ \E stream \in CanonStreams : rng = [stream |-> stream, pos |-> 0]
    /\ \/ /\ op = "IntegersMod425"
          /\ \E el \in RawValues(INTEGERSMOD425_MODULO) : ret = Ring_new(el)
       \/ /\ op = "PrimeField4999"
          /\ \E el \in RawValues(PRIMEFIELD4999_MODULO) : ret = Field_new(el)

Do_Ring_new ==
    /\ pc = "live" /\ op = "IntegersMod425"
    /\ \E el \in RawValues(INTEGERSMOD425_MODULO) : ret' = Ring_new(el)
    /\ args' = <<"new">>
    /\ UNCHANGED <<pc, op, rng>>

Do_Ring_zero ==
    /\ pc = "live" /\ op = "IntegersMod425"
    /\ ret' = Ring_zero
    /\ args' = <<"zero">>
    /\ UNCHANGED <<pc, op, rng>>

Do_Ring_one ==
    /\ pc = "live" /\ op = "IntegersMod425"
    /\ ret' = Ring_one
    /\ args' = <<"one">>
    /\ UNCHANGED <<pc, op, rng>>

Do_Ring_random ==
    /\ pc = "live" /\ op = "IntegersMod425"
    /\ rng.pos < MaxCanonDraws
    /\ ret' = Ring_random(rng).val
    /\ rng' = Ring_random(rng).rng
    /\ args' = <<"random">>
    /\ UNCHANGED <<pc, op>>

Do_Ring_add ==
    /\ pc = "live" /\ op = "IntegersMod425"
    /\ \E rhs \in RingOperands \cup {ret} : ret' = Ring_add(ret, rhs)
    /\ args' = <<"add">>
    /\ UNCHANGED <<pc, op, rng>>

Do_Ring_sub ==
    /\ pc = "live" /\ op = "IntegersMod425"
    /\ \E rhs \in RingOperands \cup {ret} : ret' = Ring_sub(ret, rhs)
    /\ args' = <<"sub">>
    /\ UNCHANGED <<pc, op, rng>>

Do_Ring_mul ==
    /\ pc = "live" /\ op = "IntegersMod425"
    /\ \E rhs \in RingOperands \cup {ret} : ret' = Ring_mul(ret, rhs)
    /\ args' = <<"mul">>
    /\ UNCHANGED <<pc, op, rng>>

Do_Ring_add_assign ==
    /\ pc = "live" /\ op = "IntegersMod425"
    /\ \E rhs \in RingOperands \cup {ret} : ret' = Ring_add_assign(ret, rhs)
    /\ args' = <<"add_assign">>
    /\ UNCHANGED <<pc, op, rng>>

Do_Ring_mul_assign ==
    /\ pc = "live" /\ op = "IntegersMod425"
    /\ \E rhs \in RingOperands \cup {ret} : ret' = Ring_mul_assign(ret, rhs)
    /\ args' = <<"mul_assign">>
    /\ UNCHANGED <<pc, op, rng>>

Do_Ring_neg ==
    /\ pc = "live" /\ op = "IntegersMod425"
    /\ ret' = Ring_neg(ret)
    /\ args' = <<"neg">>
    /\ UNCHANGED <<pc, op, rng>>

Do_Field_new ==
    /\ pc = "live" /\ op = "PrimeField4999"
    /\ \E el \in RawValues(PRIMEFIELD4999_MODULO) : ret' = Field_new(el)
    /\ args' = <<"new">>
    /\ UNCHANGED <<pc, op, rng>>

Do_Field_zero ==
    /\ pc = "live" /\ op = "PrimeField4999"
    /\ ret' = Field_zero
    /\ args' = <<"zero">>
    /\ UNCHANGED <<pc, op, rng>>

Do_Field_one ==
    /\ pc = "live" /\ op = "PrimeField4999"
    /\ ret' = Field_one
    /\ args' = <<"one">>
    /\ UNCHANGED <<pc, op, rng>>

Do_Field_random ==
    /\ pc = "live" /\ op = "PrimeField4999"
    /\ rng.pos < MaxCanonDraws
    /\ ret' = Field_random(rng).val
    /\ rng' = Field_random(rng).rng
    /\ args' = <<"random">>
    /\ UNCHANGED <<pc, op>>

Do_Field_add ==
    /\ pc = "live" /\ op = "PrimeField4999"
    /\ \E rhs \in FieldOperands \cup {ret} : ret' = Field_add(ret, rhs)
    /\ args' = <<"add">>
    /\ UNCHANGED <<pc, op, rng>>

Do_Field_sub ==
    /\ pc = "live" /\ op = "PrimeField4999"
    /\ \E rhs \in FieldOperands \cup {ret} : ret' = Field_sub(ret, rhs)
    /\ args' = <<"sub">>
    /\ UNCHANGED <<pc, op, rng>>

Do_Field_mul ==
    /\ pc = "live" /\ op = "PrimeField4999"
    /\ \E rhs \in FieldOperands \cup {ret} : ret' = Field_mul(ret, rhs)
    /\ args' = <<"mul">>
    /\ UNCHANGED <<pc, op, rng>>

Do_Field_neg ==
    /\ pc = "live" /\ op = "PrimeField4999"
    /\ ret' = Field_neg(ret)
    /\ args' = <<"neg">>
    /\ UNCHANGED <<pc, op, rng>>

\* invert produces an element when it returns Some; None leaves the
\* element as it is and a panic ends the sequence.
Do_Field_invert ==
    /\ pc = "live" /\ op = "PrimeField4999"
    /\ LET o == Field_invert(ret)
       IN  IF o.tag = "Some"
           THEN pc' = pc /\ ret' = o.val /\ args' = <<"invert">>
           ELSE IF o.tag = "None"
           THEN UNCHANGED <<pc, ret, args>>
           ELSE pc' = "panicked" /\ UNCHANGED <<ret, args>>
    /\ UNCHANGED <<op, rng>>

NextCanon ==
    \/ Do_Ring_new
    \/ Do_Ring_zero
    \/ Do_Ring_one
    \/ Do_Ring_random
    \/ Do_Ring_add
    \/ Do_Ring_sub
    \/ Do_Ring_mul
    \/ Do_Ring_add_assign
    \/ Do_Ring_mul_assign
    \/ Do_Ring_neg
    \/ Do_Field_new
    \/ Do_Field_zero
    \/ Do_Field_one
    \/ Do_Field_random
    \/ Do_Field_add
    \/ Do_Field_sub
    \/ Do_Field_mul
    \/ Do_Field_neg
    \/ Do_Field_invert

SpecCanon == InitCanon /\ [][NextCanon]_vars

\* trial_factorization step by step: the two early exits and the
\* initialisation, one iteration of the while loop, and the return through
\* Factorization::new.  While the call runs, ret holds its locals n, s, res.
InitTrial == Pending("trial_factorization", {<<n>> : n \in 0..MaxTrialN})

trial_factorization_start ==
    /\ pc = "ready" /\ op = "trial_factorization"
    /\ IF args[1] = 0 THEN pc' = "done" /\ ret' = Panic
       ELSE IF args[1] = 1
       THEN pc' = "done" /\ ret' = Factorization_new(<< >>)
       ELSE pc' = "loop" /\ ret' = [n |-> args[1], s |-> 2, res |-> << >>]
    /\ UNCHANGED <<op, args, rng>>

trial_factorization_iterate ==
    /\ pc = "loop" /\ op = "trial_factorization"
    /\ ret.n # 1
    /\ ret' = trial_body(ret)
    /\ UNCHANGED <<pc, op, args, rng>>

trial_factorization_return ==
    /\ pc = "loop" /\ op = "trial_factorization"
    /\ ret.n = 1
    /\ pc' = "done"
    /\ ret' = Factorization_new(BTreeMap_into_iter(ret.res))
    /\ UNCHANGED <<op, args, rng>>

NextTrial ==
    \/ trial_factorization_start
    \/ trial_factorization_iterate
    \/ trial_factorization_return

\* The call is sequential code: it keeps running while it has a next step.
SpecTrial == InitTrial /\ [][NextTrial]_vars /\ WF_vars(NextTrial)

\* The random sources of pollard_rho_single_factor: the two raw values that
\* become s and b.
RhoStreams == [1..2 -> 0..(MaxRhoN - 1)]

FactStreams == UNION {[1..l -> 0..MaxFactRaw] : l \in 1..MaxRngLen}

FactParameters ==
    {PollardRhoParameters(t, rr, mr) :
        t \in 0..MaxTrialBound, rr \in 0..MaxRhoRounds,
        mr \in 0..MaxFactMrRounds}

InitRho ==
    /\ pc = "ready"
    /\ ret = None
    /\ \/ /\ op = "pollard_rho_single_factor"
          /\ args \in {<<n>> : n \in 0..MaxRhoN}
          /\ \E stream \in RhoStreams : rng = [stream |-> stream, pos |-> 0]
       \/ /\ op = "pollard_rho_factorisation"
          /\ args \in FactParameters \X (0..MaxFactN)
          /\ \E stream \in FactStreams : rng = [stream |-> stream, pos |-> 0]

Call_pollard_rho_single_factor ==
    /\ pc = "ready" /\ op = "pollard_rho_single_factor"
    /\ pc' = "done"
    /\ LET out == pollard_rho_single_factor(rng, args[1])
       IN  /\ ret' = out.res
           /\ rng' = out.rng
    /\ UNCHANGED <<op, args>>

Call_pollard_rho_factorisation ==
    /\ pc = "ready" /\ op = "pollard_rho_factorisation"
    /\ pc' = "done"
    /\ LET out == pollard_rho_factorisation(rng, args[1], args[2])
       IN  /\ ret' = out.res
           /\ rng' = out.rng
    /\ UNCHANGED <<op, args>>

NextRho ==
    \/ Call_pollard_rho_single_factor
    \/ Call_pollard_rho_factorisation

SpecRho == InitRho /\ [][NextRho]_vars

\* rewrite_n step by step: the contract and the initialisation, one
\* iteration of the while loop, and the return.  While the call runs, ret
\* holds its locals s and d.
InitRewrite == Pending("rewrite_n", {<<n>> : n \in 0..MaxRewriteN})

rewrite_n_start ==
    /\ pc = "ready" /\ op = "rewrite_n"
    /\ IF args[1] % 2 = 0
       THEN pc' = "done" /\ ret' = Panic
       ELSE pc' = "loop" /\ ret' = [s |-> 0, d |-> args[1] - 1]
    /\ UNCHANGED <<op, args, rng>>

rewrite_n_iterate ==
    /\ pc = "loop" /\ op = "rewrite_n"
    /\ ret.d % 2 = 0
    /\ ret.s < MaxRewriteSteps
    /\ ret' = rewrite_body(ret.s, ret.d)
    /\ UNCHANGED <<pc, op, args, rng>>

rewrite_n_return ==
    /\ pc = "loop" /\ op = "rewrite_n"
    /\ ret.d % 2 # 0
    /\ pc' = "done"
    /\ UNCHANGED <<op, args, ret, rng>>

NextRewrite ==
    \/ rewrite_n_start
    \/ rewrite_n_iterate
    \/ rewrite_n_return

SpecRewrite == InitRewrite /\ [][NextRewrite]_vars

\* integer_embed of the ring and of the field, on integers of either sign
\* near 0 and near the modulus.
EmbedIntegers(modulo) ==
    UNION {{k, 0 - k, modulo - k, modulo + k, 0 - (modulo + k)} :
               k \in 0..MaxEmbed}

InitEmbed ==
    \/ Pending("Ring_integer_embed",
               {<<i>> : i \in EmbedIntegers(INTEGERSMOD425_MODULO)})
    \/ Pending("Field_integer_embed",
               {<<i>> : i \in EmbedIntegers(PRIMEFIELD4999_MODULO)})

Call_Ring_integer_embed ==
    /\ pc = "ready" /\ op = "Ring_integer_embed"
    /\ pc' = "done"
    /\ ret' = Ring_integer_embed(args[1])
    /\ UNCHANGED <<op, args, rng>>

Call_Field_integer_embed ==
    /\ pc = "ready" /\ op = "Field_integer_embed"
    /\ pc' = "done"
    /\ ret' = Field_integer_embed(args[1])
    /\ UNCHANGED <<op, args, rng>>

NextEmbed ==
    \/ Call_Ring_integer_embed
    \/ Call_Field_integer_embed

SpecEmbed == InitEmbed /\ [][NextEmbed]_vars

\* Every constructor and operation of DensePolynomial.  The operands are
\* polynomials as the constructors leave them; new and new_integers take
\* any vector, trailing zeros included.
OpsCoeffs == (0..MaxOpsCoeff) \cup {Field_neg(c) : c \in 0..MaxOpsCoeff}

OpsVectors == UNION {[1..n -> OpsCoeffs] : n \in 0..MaxOpsLen}

OpsIntegerVectors ==
    UNION {[1..n -> (0 - MaxOpsCoeff)..MaxOpsCoeff] : n \in 0..MaxOpsLen}

OpsPolys == {f \in OpsVectors : Len(f) = 0 \/ ~Field_is_zero(f[Len(f)])}

OpsDegreeLists ==
    UNION {[S -> OpsCoeffs] : S \in SUBSET (0..(MaxOpsLen - 1))}

EvalPoints == (0..MaxEvalPoint) \cup {Field_neg(x) : x \in 0..MaxEvalPoint}

\* The division of bin/main.rs: [-4, 0, -2, 1] by [-3, 1].
MainDividend == DensePolynomial_new_integers(<<0 - 4, 0, 0 - 2, 1>>)
MainDivisor == DensePolynomial_new_integers(<<0 - 3, 1>>)

InitPolyOps ==
    \/ Pending("new", {<<v>> : v \in OpsVectors})
    \/ Pending("new_integers", {<<v>> : v \in OpsIntegerVectors})
    \/ Pending("new_degree_list", {<<dl>> : dl \in OpsDegreeLists})
    \/ Pending("zero", {<< >>})
    \/ Pending("add", OpsPolys \X OpsPolys)
    \/ Pending("negate", {<<f>> : f \in OpsPolys})
    \/ Pending("shift", OpsPolys \X (0..MaxShift))
    \/ Pending("evaluate", OpsPolys \X EvalPoints)
    \/ Pending("mult", OpsPolys \X OpsPolys)
    \/ Pending("div_quotient_rem",
               (OpsPolys \X OpsPolys \X BOOLEAN)
                   \cup {<<MainDividend, MainDivisor, b>> : b \in BOOLEAN})

Call_new ==
    /\ pc = "ready" /\ op = "new"
    /\ pc' = "done"
    /\ ret' = DensePolynomial_new(args[1])
    /\ UNCHANGED <<op, args, rng>>

Call_new_integers ==
    /\ pc = "ready" /\ op = "new_integers"
    /\ pc' = "done"
    /\ ret' = DensePolynomial_new_integers(args[1])
    /\ UNCHANGED <<op, args, rng>>

Call_zero ==
    /\ pc = "ready" /\ op = "zero"
    /\ pc' = "done"
    /\ ret' = DensePolynomial_zero
    /\ UNCHANGED <<op, args, rng>>

Call_add ==
    /\ pc = "ready" /\ op = "add"
    /\ pc' = "done"
    /\ ret' = DensePolynomial_add(args[1], args[2])
    /\ UNCHANGED <<op, args, rng>>

Call_negate ==
    /\ pc = "ready" /\ op = "negate"
    /\ pc' = "done"
    /\ ret' = DensePolynomial_negate(args[1])
    /\ UNCHANGED <<op, args, rng>>

Call_shift ==
    /\ pc = "ready" /\ op = "shift"
    /\ pc' = "done"
    /\ ret' = DensePolynomial_shift(args[1], args[2])
    /\ UNCHANGED <<op, args, rng>>

Call_evaluate ==
    /\ pc = "ready" /\ op = "evaluate"
    /\ pc' = "done"
    /\ ret' = DensePolynomial_evaluate(args[1], args[2])
    /\ UNCHANGED <<op, args, rng>>

NextPolyOps ==
    \/ Call_new
    \/ Call_new_integers
    \/ Call_new_degree_list
    \/ Call_zero
    \/ Call_add
    \/ Call_negate
    \/ Call_shift
    \/ Call_evaluate
    \/ Call_mult
    \/ Call_div_quotient_rem

SpecPolyOps == InitPolyOps /\ [][NextPolyOps]_vars

(***************************************************************************)
(* Reference notions for the polynomial operations.                        *)
(***************************************************************************)
\* A vector is canonical: empty, or its last coefficient is nonzero.
Canonical(f) == Len(f) = 0 \/ f[Len(f)] # Field_zero

\* x^k in the field, by repeated multiplication.
RECURSIVE RefPower(_, _)
RefPower(x, k) ==
    IF k = 0 THEN 1 ELSE (x * RefPower(x, k - 1)) % PRIMEFIELD4999_MODULO

\* The sum of coeff(f, l) * x^l over l from k up to the last coefficient.
RECURSIVE RefPowerSum(_, _, _)
RefPowerSum(f, x, k) ==
    IF k >= Len(f) THEN 0
    ELSE (f[k + 1] * RefPower(x, k) + RefPowerSum(f, x, k + 1))
             % PRIMEFIELD4999_MODULO

(***************************************************************************)
(* Reference notion for the orchestrator: the recursion level (1 for the   *)
(* outermost call) at which pollard_rho_single_factor_repeat returns None  *)
(* when pollard_rho_factorisation runs on n with the random source r, and  *)
(* 0 if it does so at no level.                                            *)
(***************************************************************************)
RECURSIVE ExhaustedLevel(_, _, _, _)
ExhaustedAfterRepeat(found, params, n, level) ==
    IF found.res.tag = "None" THEN level
    ELSE IF found.res.tag = "Panic" THEN 0
    ELSE ExhaustedLevel(found.rng, params, n \div found.res.val, level + 1)

ExhaustedAfterPrimality(verdict, params, n, level) ==
    IF is_prime(verdict.res) \/ n < params.trial_bound THEN 0
    ELSE ExhaustedAfterRepeat(
             pollard_rho_single_factor_repeat(verdict.rng, n,
                                              params.rho_rounds),
             params, n, level)

ExhaustedLevel(r, params, n, level) ==
    IF n <= 1 THEN 0
    ELSE ExhaustedAfterPrimality(
             miller_rabin_with_randomness(r, n, params.miller_rabin_rounds),
             params, n, level)

\* The random source as the pending call found it.
RngAtCall == [stream |-> rng.stream, pos |-> 0]

\* The derived quantities of a curve, the membership test and negation,
\* on curves with small coefficients and points with small coordinates of
\* either sign.
PointCoords ==
    (0..MaxPointCoord) \cup {Field_neg(v) : v \in 0..MaxPointCoord}

Points == {Point(x, y) : x \in PointCoords, y \in PointCoords} \cup {Infinity}

DerivedQuantities == {"b_2", "b_4", "b_6", "b_8", "c_4", "discriminant"}

InitCurve ==
    \/ \E name \in DerivedQuantities : Pending(name, {<<c>> : c \in Curves})
    \/ Pending("is_on_curve", Curves \X Points)
    \/ Pending("GeneralForm_negate", Curves \X Points)

\* One of the derived quantities is asked for; op names it.
Call_derived_quantity ==
    /\ pc = "ready" /\ op \in DerivedQuantities
    /\ pc' = "done"
    /\ ret' = CASE op = "b_2" -> b_2(args[1])
                [] op = "b_4" -> b_4(args[1])
                [] op = "b_6" -> b_6(args[1])
                [] op = "b_8" -> b_8(args[1])
                [] op = "c_4" -> c_4(args[1])
                [] op = "discriminant" -> discriminant(args[1])
    /\ UNCHANGED <<op, args, rng>>

Call_is_on_curve ==
    /\ pc = "ready" /\ op = "is_on_curve"
    /\ pc' = "done"
    /\ ret' = GeneralForm_is_on_curve(args[1], args[2])
    /\ UNCHANGED <<op, args, rng>>

Call_GeneralForm_negate ==
    /\ pc = "ready" /\ op = "GeneralForm_negate"
    /\ pc' = "done"
    /\ ret' = GeneralForm_negate(args[1], args[2])
    /\ UNCHANGED <<op, args, rng>>

NextCurve ==
    \/ Call_derived_quantity
    \/ Call_is_on_curve
    \/ Call_GeneralForm_negate

SpecCurve == InitCurve /\ [][NextCurve]_vars

(***************************************************************************)
(* Reference notions for the curve: the closed forms of Silverman, The     *)
(* Arithmetic of Elliptic Curves, 2nd ed., p. 42, over the integers and    *)
(* reduced into the field at the end.                                      *)
(***************************************************************************)
RefB2(c) == c.a_1 * c.a_1 + 4 * c.a_2

RefB4(c) == 2 * c.a_4 + c.a_1 * c.a_3

RefB6(c) == c.a_3 * c.a_3 + 4 * c.a_6

RefB8(c) ==
    c.a_1 * c.a_1 * c.a_6 + 4 * c.a_2 * c.a_6 - c.a_1 * c.a_3 * c.a_4
        + c.a_2 * c.a_3 * c.a_3 - c.a_4 * c.a_4

RefC4(c) == RefB2(c) * RefB2(c) - 24 * RefB4(c)

RefDiscriminant(c) ==
    (0 - RefB2(c) * RefB2(c) * RefB8(c)) - 8 * RefB4(c) * RefB4(c) * RefB4(c)
        - 27 * RefB6(c) * RefB6(c) + 9 * RefB2(c) * RefB4(c) * RefB6(c)

InField(v) == v % PRIMEFIELD4999_MODULO

(***************************************************************************)
(* Reference notions used by the properties.                               *)
(***************************************************************************)
Divides(k, n) == k # 0 /\ n % k = 0

\* The greatest common divisor, with gcd(0, 0) = 0.
RefGcd(a, b) ==
    IF a = 0 /\ b = 0 THEN 0
    ELSE CHOOSE d \in 1..Max(a, b) :
            /\ (a = 0 \/ Divides(d, a)) /\ (b = 0 \/ Divides(d, b))
            /\ \A k \in (d + 1)..Max(a, b) :
                   ~((a = 0 \/ Divides(k, a)) /\ (b = 0 \/ Divides(k, b)))

\* n is a prime number.
IsPrime(n) == n >= 2 /\ \A k \in 2..(n - 1) : n % k # 0

\* The coefficient of x^k in the product of f and g: the sum over i + j = k
\* of coeff(f, i) * coeff(g, j).
RECURSIVE ConvolutionSum(_, _, _, _)
ConvolutionSum(f, g, k, i) ==
    IF i > k THEN Field_zero
    ELSE Field_add(Field_mul(DensePolynomial_coeff(f, i),
                             DensePolynomial_coeff(g, k - i)),
                   ConvolutionSum(f, g, k, i + 1))

\* Two coefficient vectors denote the same polynomial.
SamePoly(f, g) ==
    \A k \in 0..Max(Len(f), Len(g)) :
        DensePolynomial_coeff(f, k) = DensePolynomial_coeff(g, k)

\* dividend = divisor * quotient + remainder, coefficient by coefficient.
DivisionIdentity(dividend, divisor, quotient, remainder) ==
    \A k \in 0..(Max(Len(dividend), Len(divisor) + Len(quotient)) + 1) :
        DensePolynomial_coeff(dividend, k) =
            Field_add(ConvolutionSum(divisor, quotient, k, 0),
                      DensePolynomial_coeff(remainder, k))

\* A step operation by its name, and the operation folded over base e
\* times: identity for e = 0, base for e = 1, one more step for each
\* further unit of e.
StepOf(operation, x, y) ==
    IF operation = "BigUint_add" THEN x + y
    ELSE IF operation = "BigUint_mul" THEN x * y
    ELSE IF operation = "Ring_add" THEN (x + y) % INTEGERSMOD425_MODULO
    ELSE IF operation = "Ring_mul" THEN (x * y) % INTEGERSMOD425_MODULO
    ELSE IF operation = "Field_add" THEN (x + y) % PRIMEFIELD4999_MODULO
    ELSE (x * y) % PRIMEFIELD4999_MODULO

RECURSIVE FoldTimes(_, _, _, _)
FoldTimes(operation, base, identity, e) ==
    IF e = 0 THEN identity
    ELSE IF e = 1 THEN base
    ELSE StepOf(operation, FoldTimes(operation, base, identity, e - 1), base)

\* The multiplicative inverse of a nonzero field element.
RefInverse(a) ==
    CHOOSE y \in 1..(PRIMEFIELD4999_MODULO - 1) :
        (a * y) % PRIMEFIELD4999_MODULO = 1

(***************************************************************************)
(* C1: for all non-negative a and b, in either order, egcd(a, b) returns   *)
(* d = gcd(a, b) and coefficients satisfying the Bezout identity for the   *)
(* reported sign, over s = min(a, b) and l = max(a, b): negative means     *)
(* -s*a_coeff + l*n_coeff = d, otherwise s*a_coeff - l*n_coeff = d.        *)
(***************************************************************************)
C1_EgcdBezout ==
    Done("egcd") =>
        LET s == Min(args[1], args[2])
            l == Max(args[1], args[2])
        IN  /\ ret.tag = "GCDResult"
            /\ ret.d = RefGcd(args[1], args[2])
            /\ IF ret.negative
               THEN (0 - s * ret.a_coeff) + l * ret.n_coeff = ret.d
               ELSE s * ret.a_coeff - l * ret.n_coeff = ret.d

\* The general path was taken with an even and with an odd number of steps,
\* and the trivial paths (a = 0, a = b) were taken too.
C1_Witness ==
    /\ Done("egcd")
    /\ args = <<25, 7>>
    /\ ret.tag = "GCDResult"
    /\ ret.d = 1
    /\ ret.a_coeff > 1

(***************************************************************************)
(* C2: for every nonzero element e of the prime field (1 <= e < p,         *)
(* including e = one), invert(e) returns a present value inv and           *)
(* e * inv = one.                                                          *)
(***************************************************************************)
C2_InvertNonzero ==
    (Done("invert") /\ ~Field_is_zero(args[1])) =>
        /\ ret.tag = "Some"
        /\ Field_mul(args[1], ret.val) = Field_one

(***************************************************************************)
(* C3: for every dividend and every nonzero divisor, whatever their        *)
(* relative degrees, div_quotient_rem returns (quotient, remainder) with   *)
(* dividend = divisor*quotient + remainder, and remainder zero or of       *)
(* degree strictly less than the divisor's.                                *)
(***************************************************************************)
C3_DivisionInvariant ==
    (Done("div_quotient_rem") /\ ~DensePolynomial_is_zero(args[2])) =>
        /\ ret.tag = "Pair"
        /\ DivisionIdentity(args[1], args[2], ret.quotient, ret.remainder)
        /\ \/ DensePolynomial_is_zero(ret.remainder)
           \/ Len(ret.remainder) < Len(args[2])

(***************************************************************************)
(* C4: mult(f, g) is the full convolution: for every k its coefficient at  *)
(* k is the sum over i + j = k of coeff(f, i) * coeff(g, j); for nonzero f *)
(* and g the product has degree deg(f) + deg(g).                           *)
(***************************************************************************)
C4_MultConvolution ==
    Done("mult") =>
        /\ \A k \in 0..(Len(args[1]) + Len(args[2])) :
               DensePolynomial_coeff(ret, k) = ConvolutionSum(args[1], args[2], k, 0)
        /\ (Len(args[1]) > 0 /\ Len(args[2]) > 0) =>
               DensePolynomial_degree(ret) =
                   Some((Len(args[1]) - 1) + (Len(args[2]) - 1))

(***************************************************************************)
(* C5: for every field element j other than 0 and 1728 mod p, the curve    *)
(* built by from_j_invariant(j) is non-singular and                        *)
(* j_invariant(from_j_invariant(j)) = j.                                   *)
(***************************************************************************)
C5_JInvariantRoundTrip ==
    (/\ Done("from_j_invariant")
     /\ ~Field_is_zero(args[1])
     /\ args[1] # Field_integer_embed(1728)) =>
        /\ ret.tag = "Ok"
        /\ ~Field_is_zero(discriminant(ret.val))
        /\ j_invariant(ret.val) = Ok(args[1])

(***************************************************************************)
(* C6: new_degree_list returns the polynomial whose coefficient at each    *)
(* listed degree is the listed value and zero at every other degree, so it *)
(* equals the dense constructor new on the same coefficients in ascending  *)
(* order, also when the only nonzero entry is at degree 0.                 *)
(***************************************************************************)
C6_DegreeListIsDense ==
    Done("new_degree_list") =>
        LET dense == [i \in 1..(MaxListDegree + 1) |->
                        IF (i - 1) \in DOMAIN args[1] THEN args[1][i - 1]
                        ELSE Field_zero]
        IN  /\ \A k \in 0..(MaxListDegree + 1) :
                   DensePolynomial_coeff(ret, k) = DensePolynomial_coeff(dense, k)
            /\ ret = DensePolynomial_new(dense)

(***************************************************************************)
(* C7: for every n >= 2, deterministic_miller_rabin(n) returns             *)
(* CertainPrime if and only if n is prime, and for every composite n a     *)
(* composite verdict: CompositeEven, or CompositeWitness(a) with a in      *)
(* [2, n).                                                                 *)
(***************************************************************************)
C7_DeterministicExact ==
    (Done("deterministic_miller_rabin") /\ args[1] >= 2) =>
        /\ (ret = CertainPrime) <=> IsPrime(args[1])
        /\ ~IsPrime(args[1]) =>
              \/ ret = CompositeEven
              \/ ret.tag = "CompositeWitness" /\ ret.a \in 2..(args[1] - 1)

\* An odd composite was refuted by a witness, and a prime needing the
\* squaring loop was certified.
C7_Witness ==
    /\ Done("deterministic_miller_rabin")
    /\ args[1] = 91
    /\ ret.tag = "CompositeWitness"

(***************************************************************************)
(* C8 as stated: for every odd n >= 3 and every rounds >= n - 3,           *)
(* miller_rabin_with_randomness takes the exhaustive path: it draws        *)
(* nothing from the random source and its result is that of                *)
(* deterministic_miller_rabin(n), whatever the random source; it never     *)
(* returns PossiblePrime, and it returns CertainPrime when n is prime.     *)
(***************************************************************************)
ExhaustivePathTaken ==
    /\ rng.pos = 0
    /\ ret = deterministic_miller_rabin(args[1])
    /\ ret # PossiblePrime
    /\ IsPrime(args[1]) => ret = CertainPrime

C8_ExhaustiveFromNMinus3 ==
    (/\ Done("miller_rabin_with_randomness")
     /\ args[1] >= 3 /\ args[1] % 2 = 1
     /\ args[2] >= args[1] - 3) => ExhaustivePathTaken

(***************************************************************************)
(* C8 amended: the same for every odd n >= 3 and every rounds > n - 3,     *)
(* that is rounds >= n - 2, the number of witnesses in [2, n).             *)
(***************************************************************************)
C8_ExhaustiveAboveNMinus3 ==
    (/\ Done("miller_rabin_with_randomness")
     /\ args[1] >= 3 /\ args[1] % 2 = 1
     /\ args[2] > args[1] - 3) => ExhaustivePathTaken

\* The exhaustive path was taken at its threshold rounds = n - 2, for a
\* prime.
C8_Witness ==
    /\ Done("miller_rabin_with_randomness")
    /\ args = <<11, 9>>
    /\ ret = CertainPrime
    /\ rng.pos = 0

(***************************************************************************)
(* C9: for every prime n, every round count and every sequence of random   *)
(* witnesses drawn from [2, n), miller_rabin_with_randomness returns       *)
(* CertainPrime or PossiblePrime; a composite verdict (CompositeWitness or *)
(* CompositeEven) is returned only when n is composite.                    *)
(***************************************************************************)
C9_PrimesNeverComposite ==
    Done("miller_rabin_with_randomness") =>
        /\ IsPrime(args[1]) => ret.tag \in {"CertainPrime", "PossiblePrime"}
        /\ ret.tag \in {"CompositeWitness", "CompositeEven"} =>
              (args[1] >= 2 /\ ~IsPrime(args[1]))

\* A prime went through the probabilistic rounds, drawing witnesses.
C9_Witness ==
    /\ Done("miller_rabin_with_randomness")
    /\ args = <<11, 2>>
    /\ rng.pos = 2
    /\ ret = PossiblePrime

(***************************************************************************)
(* C10: the three drivers classify the edge cases before any witness is    *)
(* tried: n = 0 gives Zero, n = 1 gives One, n = 2 gives CertainPrime and  *)
(* every even n > 2 gives CompositeEven, with nothing drawn from the       *)
(* random source.                                                          *)
(***************************************************************************)
C10_DriverEdgeCases ==
    (/\ pc = "done"
     /\ op \in {"miller_rabin_with_randomness", "deterministic_miller_rabin",
                "miller_rabin_step"}) =>
        /\ args[1] = 0 => ret = Zero
        /\ args[1] = 1 => ret = One
        /\ args[1] = 2 => ret = CertainPrime
        /\ (args[1] > 2 /\ args[1] % 2 = 0) => ret = CompositeEven
        /\ (args[1] <= 2 \/ args[1] % 2 = 0) => rng.pos = 0

\* n = 2 was classified by the randomized driver asked for many rounds.
C10_Witness ==
    /\ Done("miller_rabin_with_randomness")
    /\ args = <<2, 5>>
    /\ ret = CertainPrime

(***************************************************************************)
(* C17: for every odd n >= 3, rewrite_n(n) returns (s, d) with             *)
(* n - 1 = 2^s * d, d odd and s >= 1.                                      *)
(***************************************************************************)
C17_RewriteDecomposes ==
    (Done("rewrite_n") /\ args[1] >= 3 /\ args[1] % 2 = 1) =>
        /\ ret # Panic
        /\ args[1] - 1 = (2 ^ ret.s) * ret.d
        /\ ret.d % 2 = 1
        /\ ret.s >= 1

\* rewrite_n(32 * 17 + 1) has returned (5, 17).
C17_Witness ==
    /\ Done("rewrite_n")
    /\ args = <<545>>
    /\ ret = [s |-> 5, d |-> 17]

(***************************************************************************)
(* C18: rewrite_n(1) terminates and returns (0, 1): its loop runs no       *)
(* iteration (the count stays 0 for the whole call) and the value          *)
(* returned is s = 0, d = 1.                                               *)
(***************************************************************************)
C18_RewriteOneReturns ==
    (op = "rewrite_n" /\ args = <<1>>) =>
        /\ pc = "loop" => ret.s = 0
        /\ pc = "done" => ret = [s |-> 0, d |-> 1]

(***************************************************************************)
(* C13: for every n >= 1, trial_factorization(n) terminates and returns a  *)
(* factorization whose product of divisor^multiplicity is n (the empty     *)
(* factorization for n = 1), with every divisor prime.                     *)
(***************************************************************************)
TrialResultCorrect ==
    /\ Done("trial_factorization")
    /\ ret.tag = "Factorization"
    /\ Factorization_n(ret) = args[1]
    /\ \A div \in DOMAIN ret.map : IsPrime(div) /\ ret.map[div] >= 1
    /\ args[1] = 1 => DOMAIN ret.map = {}

C13_TrialFactorizes ==
    (pc = "ready" /\ op = "trial_factorization" /\ args[1] >= 1)
        ~> TrialResultCorrect

\* trial_factorization(60) has returned {2: 2, 3: 1, 5: 1}.
C13_Witness ==
    /\ Done("trial_factorization")
    /\ args = <<60>>
    /\ ret = Factorization((2 :> 2) @@ (3 :> 1) @@ (5 :> 1))

(***************************************************************************)
(* C19: whenever pollard_rho_single_factor(n) returns a factor g, for any  *)
(* start s and shift b, g divides n and 1 < g < n; a gcd that degenerates  *)
(* to n gives absence, never n itself and never 1.                         *)
(***************************************************************************)
C19_SingleFactorProper ==
    (Done("pollard_rho_single_factor") /\ ret.tag = "Some") =>
        /\ Divides(ret.val, args[1])
        /\ 1 < ret.val
        /\ ret.val < args[1]

\* pollard_rho_single_factor(21) has found the factor 3 from start 0 and
\* shift 2.
C19_Witness ==
    /\ Done("pollard_rho_single_factor")
    /\ args = <<21>>
    /\ rng = [stream |-> <<0, 1>>, pos |-> 2]
    /\ ret = Some(3)

(***************************************************************************)
(* C11: for every n >= 1, every parameter bundle and every behaviour of    *)
(* the random source, whenever pollard_rho_factorisation returns a result, *)
(* the product of divisor^multiplicity over that result is n.              *)
(***************************************************************************)
C11_ProductIsN ==
    (Done("pollard_rho_factorisation") /\ args[2] >= 1 /\ ret.tag = "Some") =>
        Factorization_n(ret.val) = args[2]

\* 15 was found composite by one Miller-Rabin round, split by Pollard's rho
\* and the two parts merged.
C11_Witness ==
    /\ Done("pollard_rho_factorisation")
    /\ args = <<PollardRhoParameters(0, 1, 1), 15>>
    /\ rng = [stream |-> <<0>>, pos |-> 4]
    /\ ret = Some(Factorization((3 :> 1) @@ (5 :> 1)))

(***************************************************************************)
(* C12: every Factorization returned by pollard_rho_factorisation maps     *)
(* prime divisors to positive multiplicities: each key is a prime number,  *)
(* never 0 or 1.                                                           *)
(***************************************************************************)
C12_KeysArePrime ==
    (Done("pollard_rho_factorisation") /\ args[2] >= 1 /\ ret.tag = "Some") =>
        \A div \in DOMAIN ret.val.map :
            IsPrime(div) /\ ret.val.map[div] >= 1

(***************************************************************************)
(* C14: for every base, step operation with identity and exponent e >= 0,  *)
(* positive_double_and_add returns the operation folded over the base e    *)
(* times (identity for e = 0, base for e = 1): e * base with addition,     *)
(* base^e with multiplication.                                             *)
(***************************************************************************)
C14_PositiveFolds ==
    Done("positive_double_and_add") =>
        LET state == args[1]
            e     == args[2]
        IN  /\ ret = FoldTimes(state.operation, state.base,
                               apply_identity(state.identity), e)
            /\ state.operation = "BigUint_add" => ret = e * state.base
            /\ state.operation = "BigUint_mul" =>
                   ret = IF e = 0 THEN 1 ELSE state.base ^ e

\* 2^13 was computed by the second loop, with bits of the exponent set and
\* unset.
C14_Witness ==
    /\ Done("positive_double_and_add")
    /\ args = <<PositiveDoubleAndAddState(2, "BigUint_mul", "BigUint_one"), 13>>
    /\ ret = 8192

(***************************************************************************)
(* C15: for every negative exponent e the signed exponentiations           *)
(* (possibly_negative_double_and_add through Ring::scale, and the field's  *)
(* scale and pow through divide_and_conquer) return the step operation     *)
(* folded |e| times over the inverse of the base, for every base that has  *)
(* one; scale(x, -k) = neg(scale(x, k)).                                   *)
(***************************************************************************)
C15_NegativeExponent ==
    (pc = "done" /\ op \in {"Ring_scale", "Field_scale", "Field_pow"}
                 /\ args[2] < 0) =>
        LET x == args[1]
            k == 0 - args[2]
        IN  /\ op = "Ring_scale" =>
                   /\ ret = FoldTimes("Ring_add",
                                      (INTEGERSMOD425_MODULO - x)
                                          % INTEGERSMOD425_MODULO,
                                      0, k)
                   /\ ret = Ring_neg(Ring_scale(x, k))
            /\ op = "Field_scale" =>
                   /\ ret = FoldTimes("Field_add",
                                      (PRIMEFIELD4999_MODULO - x)
                                          % PRIMEFIELD4999_MODULO,
                                      0, k)
                   /\ ret = Field_neg(Field_scale(x, k))
            /\ (op = "Field_pow" /\ x # 0) =>
                   /\ ret.tag = "Ok"
                   /\ ret.val = FoldTimes("Field_mul", RefInverse(x), 1, k)

(***************************************************************************)
(* C16: for every ring element e, zero included, positive_pow(e, 0)        *)
(* returns the multiplicative identity one.                                *)
(***************************************************************************)
C16_PowZeroIsOne ==
    (Done("Ring_positive_pow") /\ args[2] = 0) => ret = Ring_one

(***************************************************************************)
(* C20: after any sequence of operations (new, add, sub, mul, neg,         *)
(* add_assign, mul_assign, zero, one, random, invert) on the ring and      *)
(* field types, every produced element holds a representative in           *)
(* [0, modulus); in particular neg(zero) is zero, not modulus.             *)
(***************************************************************************)
C20_CanonicalRepresentative ==
    /\ op = "IntegersMod425" =>
           /\ ret \in 0..(INTEGERSMOD425_MODULO - 1)
           /\ Ring_neg(Ring_zero) = Ring_zero
    /\ op = "PrimeField4999" =>
           /\ ret \in 0..(PRIMEFIELD4999_MODULO - 1)
           /\ Field_neg(Field_zero) = Field_zero

\* neg has just been applied to zero, in the ring.
C20_Witness ==
    /\ op = "IntegersMod425"
    /\ args = <<"neg">>
    /\ ret = Ring_zero

(***************************************************************************)
(* C21: integer_embed is a ring homomorphism from the integers: for every  *)
(* integer i, positive, zero or negative, integer_embed(i) is the element  *)
(* whose representative is i mod modulus; integer_embed(0) is zero,        *)
(* integer_embed(1) is one, integer_embed(a + b) is                        *)
(* integer_embed(a) + integer_embed(b) and integer_embed(a * b) is         *)
(* integer_embed(a) * integer_embed(b).                                    *)
(***************************************************************************)
C21_EmbedIsHomomorphism ==
    /\ Done("Ring_integer_embed") =>
           /\ ret = args[1] % INTEGERSMOD425_MODULO
           /\ args[1] = 0 => ret = Ring_zero
           /\ args[1] = 1 => ret = Ring_one
           /\ \A b \in EmbedIntegers(INTEGERSMOD425_MODULO) :
                  /\ Ring_integer_embed(args[1] + b)
                         = Ring_add(ret, Ring_integer_embed(b))
                  /\ Ring_integer_embed(args[1] * b)
                         = Ring_mul(ret, Ring_integer_embed(b))
    /\ Done("Field_integer_embed") =>
           /\ ret = args[1] % PRIMEFIELD4999_MODULO
           /\ args[1] = 0 => ret = Field_zero
           /\ args[1] = 1 => ret = Field_one
           /\ \A b \in EmbedIntegers(PRIMEFIELD4999_MODULO) :
                  /\ Field_integer_embed(args[1] + b)
                         = Field_add(ret, Field_integer_embed(b))
                  /\ Field_integer_embed(args[1] * b)
                         = Field_mul(ret, Field_integer_embed(b))

\* A negative integer below the negated modulus has been embedded in the
\* ring.
C21_Witness ==
    /\ Done("Ring_integer_embed")
    /\ args[1] = 0 - (INTEGERSMOD425_MODULO + 3)
    /\ ret = INTEGERSMOD425_MODULO - 3

(***************************************************************************)
(* C22: every DensePolynomial produced by a constructor or an operation    *)
(* (new, new_integers, new_degree_list, zero, add, negate, shift, mult,    *)
(* and both results of div_quotient_rem) is canonical: its coefficient     *)
(* vector is empty or ends in a nonzero coefficient.                       *)
(***************************************************************************)
C22_ProducedPolynomialsCanonical ==
    /\ (pc = "done"
        /\ op \in {"new", "new_integers", "new_degree_list", "zero", "add",
                   "negate", "shift", "mult"}) => Canonical(ret)
    /\ (Done("div_quotient_rem") /\ ret.tag = "Pair") =>
           /\ Canonical(ret.quotient)
           /\ Canonical(ret.remainder)

\* add has cancelled the leading coefficients of its operands.
C22_Witness ==
    /\ Done("add")
    /\ args = <<<<1, 1>>, <<0, Field_neg(1)>>>>
    /\ ret = <<1>>

(***************************************************************************)
(* C23: evaluate(f, x) is the sum over k of coeff(f, k) * x^k: zero for    *)
(* the zero polynomial, the constant term at x = zero.                     *)
(***************************************************************************)
C23_EvaluateIsPowerSum ==
    Done("evaluate") =>
        /\ ret = RefPowerSum(args[1], args[2], 0)
        /\ DensePolynomial_is_zero(args[1]) => ret = Field_zero
        /\ args[2] = Field_zero => ret = DensePolynomial_coeff(args[1], 0)

\* 1 + x + x^2 has been evaluated at 2.
C23_Witness ==
    /\ Done("evaluate")
    /\ args = <<<<1, 1, 1>>, 2>>
    /\ ret = 7

(***************************************************************************)
(* C26: for a nonzero dividend and a nonzero divisor with                  *)
(* deg(dividend) >= deg(divisor), div_quotient_rem returns (q, r) with     *)
(* dividend = divisor * q + r, deg(q) = deg(dividend) - deg(divisor), and  *)
(* r zero or of degree below the divisor's; [-4, 0, -2, 1] divided by      *)
(* [-3, 1] gives quotient [3, 1, 1] and remainder [5].                     *)
(***************************************************************************)
C26_DivisionWhenDegreeSuffices ==
    (/\ Done("div_quotient_rem")
     /\ ~DensePolynomial_is_zero(args[1])
     /\ ~DensePolynomial_is_zero(args[2])
     /\ Len(args[1]) >= Len(args[2])) =>
        /\ ret.tag = "Pair"
        /\ DivisionIdentity(args[1], args[2], ret.quotient, ret.remainder)
        /\ Len(ret.quotient) - 1 = Len(args[1]) - Len(args[2])
        /\ \/ DensePolynomial_is_zero(ret.remainder)
           \/ Len(ret.remainder) < Len(args[2])
        /\ (args[1] = MainDividend /\ args[2] = MainDivisor) =>
               /\ ret.quotient = <<3, 1, 1>>
               /\ ret.remainder = <<5>>

(***************************************************************************)
(* C24: the orchestrator is all-or-nothing: if                             *)
(* pollard_rho_single_factor_repeat returns absence at any recursion       *)
(* level, pollard_rho_factorisation returns absence for the whole input,   *)
(* with no partial factorization and no fatal failure; if no level         *)
(* exhausts its budget it returns a result.  (n = 0 is rejected before any *)
(* level runs and is left out.)                                            *)
(***************************************************************************)
C24_AllOrNothing ==
    (Done("pollard_rho_factorisation") /\ args[2] >= 1) =>
        /\ ret # Panic
        /\ ExhaustedLevel(RngAtCall, args[1], args[2], 1) > 0 => ret = None
        /\ ExhaustedLevel(RngAtCall, args[1], args[2], 1) = 0 =>
               ret.tag = "Some"

\* The budget ran out one level down, after the outermost level had found
\* a factor, and the whole call returned absence.
C24_Witness ==
    /\ Done("pollard_rho_factorisation")
    /\ ExhaustedLevel(RngAtCall, args[1], args[2], 1) >= 2
    /\ ret = None

(***************************************************************************)
(* C25: for every curve (a1, a2, a3, a4, a6) the derived quantities equal  *)
(* the closed forms of Silverman p. 42: b2 = a1^2 + 4*a2,                  *)
(* b4 = 2*a4 + a1*a3, b6 = a3^2 + 4*a6,                                    *)
(* b8 = a1^2*a6 + 4*a2*a6 - a1*a3*a4 + a2*a3^2 - a4^2,                     *)
(* c4 = b2^2 - 24*b4, and                                                  *)
(* discriminant = -b2^2*b8 - 8*b4^3 - 27*b6^2 + 9*b2*b4*b6.                *)
(***************************************************************************)
C25_DerivedQuantitiesClosedForms ==
    /\ Done("b_2") => ret = InField(RefB2(args[1]))
    /\ Done("b_4") => ret = InField(RefB4(args[1]))
    /\ Done("b_6") => ret = InField(RefB6(args[1]))
    /\ Done("b_8") => ret = InField(RefB8(args[1]))
    /\ Done("c_4") => ret = InField(RefC4(args[1]))
    /\ Done("discriminant") => ret = InField(RefDiscriminant(args[1]))

(***************************************************************************)
(* C30: for every curve and every point P, negate is an involution that    *)
(* preserves membership: negate(negate(P)) = P, negate(Infinity) is        *)
(* Infinity, negate keeps the x-coordinate, and is_on_curve(negate(P))     *)
(* holds whenever is_on_curve(P) holds.                                    *)
(***************************************************************************)
C30_NegateInvolution ==
    Done("GeneralForm_negate") =>
        /\ GeneralForm_negate(args[1], ret) = args[2]
        /\ args[2] = Infinity => ret = Infinity
        /\ args[2] # Infinity => (ret # Infinity /\ ret.x = args[2].x)
        /\ GeneralForm_is_on_curve(args[1], args[2]) =>
               GeneralForm_is_on_curve(args[1], ret)

\* A point of a curve with nonzero a_1 and a_3, other than Infinity, has
\* been negated into a different point.
C30_Witness ==
    /\ Done("GeneralForm_negate")
    /\ GeneralForm_is_on_curve(args[1], args[2])
    /\ args[1].a_1 # 0 /\ args[1].a_3 # 0
    /\ args[2] # Infinity
    /\ ret # args[2]

\* x is what the EGCD result res stands for as an inverse: the modulus
\* less a_coeff when negative is set, which must not go below zero, and
\* a_coeff otherwise.
SignRederived(res, x) ==
    /\ res.tag # "Panic"
    /\ res.d = 1
    /\ res.negative =>
           /\ res.a_coeff <= PRIMEFIELD4999_MODULO
           /\ x = PRIMEFIELD4999_MODULO - res.a_coeff
    /\ ~res.negative => x = res.a_coeff

(***************************************************************************)
(* C27: for every field element e with 2 <= e < p, invert(e) re-derives    *)
(* the sign from the EGCD result correctly: it returns the canonical x in  *)
(* [1, p) with e * x congruent to 1 mod p (modulus - a_coeff when negative *)
(* is true, a_coeff otherwise), and the subtraction modulus - a_coeff      *)
(* never underflows; invert(zero) returns absence.                         *)
(***************************************************************************)
C27_InvertRederivesSign ==
    /\ (Done("invert") /\ args[1] >= 2) =>
           /\ ret.tag = "Some"
           /\ ret.val \in 1..(PRIMEFIELD4999_MODULO - 1)
           /\ (args[1] * ret.val) % PRIMEFIELD4999_MODULO = 1
           /\ SignRederived(egcd_typical(args[1], PRIMEFIELD4999_MODULO),
                            ret.val)
    /\ (Done("invert") /\ args[1] = Field_zero) => ret = None

\* 2 has been inverted: the EGCD gives 1 = 4999 - 2499 * 2, a negative
\* coefficient, and the inverse is 4999 - 2499.
C27_Witness ==
    /\ Done("invert")
    /\ args = <<2>>
    /\ egcd_typical(2, PRIMEFIELD4999_MODULO).negative
    /\ ret = Some(2500)

(***************************************************************************)
(* C28: for every n >= 2, every random start s in [0, n) and every shift b *)
(* the attempt can draw, pollard_rho_single_factor terminates without a    *)
(* fatal failure: the call returns either a factor or absence.             *)
(***************************************************************************)
C28_SingleFactorNeverFatal ==
    (Done("pollard_rho_single_factor") /\ args[1] >= 2) =>
        ret.tag \in {"Some", "None"}

(***************************************************************************)
(* C29: for every field element j other than 0 and 1728 mod p, the generic *)
(* branch of from_j_invariant never fails: the inversion of j - 1728       *)
(* yields a value and a curve is returned, j = 1729 included.              *)
(***************************************************************************)
C29_GenericBranchNeverFails ==
    (/\ Done("from_j_invariant")
     /\ args[1] # Field_zero
     /\ args[1] # Field_integer_embed(1728)) => ret.tag = "Ok"

====
